---------------------------- MODULE Spec2Model ----------------------------
(***************************************************************************)
(* A model of the hiking transit planner: the date-filtered schedule       *)
(* store, the two router backends (in-memory dicts and SQLite proxies),    *)
(* find_outbound / find_return, and the planner that composes an outbound  *)
(* ride, a hike and a return ride per trail access point.                  *)
(*                                                                         *)
(* Times are integer seconds since midnight, as in the source.  GTFS time  *)
(* strings "HH:MM:SS" are the triples <<h, m, s>>.  A Python None and an   *)
(* empty list are both the empty sequence: the router only ever tests      *)
(* them with "if not x".                                                   *)
(***************************************************************************)
EXTENDS Integers, Sequences, FiniteSets, TLC

VARIABLES
    feed,                \* the GTFS zip: calendar, calendar_dates, trips, stop_times
    date,                \* the travel date
    filtered,            \* load_feed_for_date's _FilteredFeed (trips, stop_times), or None
    db,                  \* the on-disk store transit_<date>.db (its tables), or None
    stop_departures,     \* TransitRouter.stop_departures (in-memory dict)
    trip_stop_sequence,  \* TransitRouter.trip_stop_sequence (in-memory dict)
    dep_cache,           \* _StopDeparturesProxy._cache, restricted to the modelled stops
    trip_cache,          \* _TripStopSequenceProxy._cache, restricted to the modelled trips
    dep_cache_other,     \* number of further entries of _StopDeparturesProxy._cache
    trip_cache_other,    \* number of further entries of _TripStopSequenceProxy._cache
    request,             \* the router call a caller is about to make, or NoRequest
    last,                \* the last router call: its arguments and what it returned
    trails,              \* PlannerContext.trails: the trails with their access points
    query,               \* the HikeQuery a caller is about to plan, or NoQuery
    plans,               \* what plan_hikes_for_origin returned last
    served,              \* the HikeQuery that call was made with, or NoQuery
    trail_plans,         \* that call's trail_plans, one list per trail of the context
    ctx_date,            \* web/app.py _ctx_date: the date of the shared context, or None
    dedup_input,         \* the list _deduplicate_access_points is first called with
    dedup_results,       \* what the calls of _deduplicate_access_points returned
    error,               \* the error the last entry point ended with (<<name>>), or None
    store_files,         \* GTFS_DIR: the dates d with a file transit_<d>.db
    handles,             \* the dates of the TransitRouterDB connections that are open
    ctx,                 \* web/app.py _ctx: the shared PlannerContext, or None
    ctx_call,            \* the last _get_context call: its date, outcome and the state before
    fs,                  \* GTFS_DIR of build_transit_db: path -> inode, 0 when absent
    inode,               \* the SQLite files: inode -> tables, rows and indexes it holds
    run                  \* the build_transit_db runs: position, connection and result

vars == <<feed, date, filtered, db, stop_departures, trip_stop_sequence,
          dep_cache, trip_cache, dep_cache_other, trip_cache_other, request, last,
          trails, query, plans, served, trail_plans, ctx_date, dedup_input,
          dedup_results, error, store_files, handles, ctx, ctx_call, fs, inode, run>>

(***************************************************************************)
(* Program constants.                                                      *)
(***************************************************************************)
PROXY_CACHE_MAX == 20000
MAX_INTERMEDIATE_STOPS == 30
MAX_CONNECTING_DEPARTURES == 10
MAX_RETURN_DEPARTURES == 10
MIN_TRANSFER_SECS == 60
SECS_PER_DAY == 86400

\* float("inf"): above every time of the model (stop times stay below 48 h).
INF == 48 * 3600

None == <<>>

(***************************************************************************)
(* Model bounds.                                                           *)
(***************************************************************************)
MaxTrips == 2
MaxExceptions == 2

\* "HH:MM:SS" -> seconds since midnight; hours >= 24 are allowed.
TimeToSeconds(t) == t[1] * 3600 + t[2] * 60 + t[3]

(***************************************************************************)
(* Python's list.sort(key=...) is stable: equal keys keep their order.     *)
(***************************************************************************)
RECURSIVE InsertByDep(_, _)
InsertByDep(sorted, x) ==
    IF sorted = <<>> THEN <<x>>
    ELSE IF sorted[Len(sorted)].dep_secs <= x.dep_secs THEN Append(sorted, x)
    ELSE Append(InsertByDep(SubSeq(sorted, 1, Len(sorted) - 1), x), sorted[Len(sorted)])

RECURSIVE SortByDep(_)
SortByDep(s) ==
    IF s = <<>> THEN <<>>
    ELSE InsertByDep(SortByDep(SubSeq(s, 1, Len(s) - 1)), s[Len(s)])

RECURSIVE InsertBySeq(_, _)
InsertBySeq(sorted, x) ==
    IF sorted = <<>> THEN <<x>>
    ELSE IF sorted[Len(sorted)].seq <= x.seq THEN Append(sorted, x)
    ELSE Append(InsertBySeq(SubSeq(sorted, 1, Len(sorted) - 1), x), sorted[Len(sorted)])

RECURSIVE SortBySeq(_)
SortBySeq(s) ==
    IF s = <<>> THEN <<>>
    ELSE InsertBySeq(SortBySeq(SubSeq(s, 1, Len(s) - 1)), s[Len(s)])

RECURSIVE SelectRows(_, _, _)
\* The rows of a table with row[field] = key, in table order.
SelectRows(rows, field, key) ==
    IF rows = <<>> THEN <<>>
    ELSE LET rest == SelectRows(SubSeq(rows, 1, Len(rows) - 1), field, key)
             r == rows[Len(rows)]
         IN IF r[field] = key THEN Append(rest, r) ELSE rest

Reverse(s) == [i \in 1..Len(s) |-> s[Len(s) + 1 - i]]

StopIds(rows) == {rows[i].stop_id : i \in 1..Len(rows)}
TripIds(rows) == {rows[i].trip_id : i \in 1..Len(rows)}

\* (dep_secs, trip_id, seq) and (stop_id, arr_secs, dep_secs, seq) of a feed row
DepOf(r) == [dep_secs |-> TimeToSeconds(r.departure_time),
             trip_id |-> r.trip_id, seq |-> r.stop_sequence]
StopOf(r) == [stop_id |-> r.stop_id, arr_secs |-> TimeToSeconds(r.arrival_time),
              dep_secs |-> TimeToSeconds(r.departure_time), seq |-> r.stop_sequence]

MapDep(rows) == [i \in 1..Len(rows) |-> DepOf(rows[i])]
MapStop(rows) == [i \in 1..Len(rows) |-> StopOf(rows[i])]

\* The same two projections of a row of the stop_times table
DbDepOf(r) == [dep_secs |-> r.departure_secs, trip_id |-> r.trip_id,
               seq |-> r.stop_sequence]
DbStopOf(r) == [stop_id |-> r.stop_id, arr_secs |-> r.arrival_secs,
                dep_secs |-> r.departure_secs, seq |-> r.stop_sequence]

DbMapDep(rows) == [i \in 1..Len(rows) |-> DbDepOf(rows[i])]
DbMapStop(rows) == [i \in 1..Len(rows) |-> DbStopOf(rows[i])]

(***************************************************************************)
(* TransitRouter.__init__: the two indexes, appended in row order and then *)
(* sorted (stably) by departure time and by stop_sequence.                 *)
(***************************************************************************)
BuildStopDepartures(rows) ==
    [s \in StopIds(rows) |-> SortByDep(MapDep(SelectRows(rows, "stop_id", s)))]

BuildTripStopSequence(rows) ==
    [t \in TripIds(rows) |-> SortBySeq(MapStop(SelectRows(rows, "trip_id", t)))]


(***************************************************************************)
(* The on-disk store.  db.stop_times is the stop_times table in rowid      *)
(* order (the order of insertion), with integer arrival_secs and           *)
(* departure_secs columns.  Both statements of the proxies are answered    *)
(* from the indexes idx_st_stop_dep (stop_id, departure_secs) and          *)
(* idx_st_trip_seq (trip_id, stop_sequence), whose entries with equal keys *)
(* are in rowid order.                                                     *)
(***************************************************************************)

\* A variant of QueryDepartures: rows with equal departure_secs come newest first
QueryDeparturesNewestFirst(table, stop_id) ==
    SortByDep(DbMapDep(SelectRows(Reverse(table), "stop_id", stop_id)))

\* SELECT departure_secs, trip_id, stop_sequence FROM stop_times
\*   WHERE stop_id = ? ORDER BY departure_secs
QueryDepartures(table, stop_id) ==
    SortByDep(DbMapDep(SelectRows(table, "stop_id", stop_id)))

\* SELECT stop_id, arrival_secs, departure_secs, stop_sequence FROM stop_times
\*   WHERE trip_id = ? ORDER BY stop_sequence
QueryTripStops(table, trip_id) ==
    SortBySeq(DbMapStop(SelectRows(table, "trip_id", trip_id)))

EmptyDict == [k \in {} |-> <<>>]

DictPut(d, key, val) == [k \in DOMAIN d \cup {key} |-> IF k = key THEN val ELSE d[k]]

(***************************************************************************)
(* A router handle: which backend it is, and (for the on-disk backend) the *)
(* contents of its two row caches.  "other" counts the cached keys that    *)
(* are not stops or trips of the model (left by earlier queries).          *)
(***************************************************************************)
MemRouter == [backend |-> "mem", dep |-> EmptyDict, trip |-> EmptyDict,
              dep_other |-> 0, trip_other |-> 0]

DBRouter == [backend |-> "db", dep |-> dep_cache, trip |-> trip_cache,
             dep_other |-> dep_cache_other, trip_other |-> trip_cache_other]

FreshDBRouter == [backend |-> "db", dep |-> EmptyDict, trip |-> EmptyDict,
                  dep_other |-> 0, trip_other |-> 0]

\* A variant of StopDeparturesProxyMiss: clearing the cache loses the rows
StopDeparturesProxyMissLosesRows(R, stop_id, rows) ==
    IF Cardinality(DOMAIN R.dep) + R.dep_other > PROXY_CACHE_MAX
    THEN [val |-> None,
          R |-> [R EXCEPT !.dep = DictPut(EmptyDict, stop_id, None), !.dep_other = 0]]
    ELSE [val |-> rows, R |-> [R EXCEPT !.dep = DictPut(R.dep, stop_id, rows)]]

\* _StopDeparturesProxy.get on a miss; rows is what the query returned
StopDeparturesProxyMiss(R, stop_id, rows) ==
    [val |-> rows,
     R |-> IF Cardinality(DOMAIN R.dep) + R.dep_other > PROXY_CACHE_MAX
           THEN [R EXCEPT !.dep = DictPut(EmptyDict, stop_id, rows), !.dep_other = 0]
           ELSE [R EXCEPT !.dep = DictPut(R.dep, stop_id, rows)]]

\* _StopDeparturesProxy.get: [val |-> what get returns, R |-> the router afterwards]
StopDeparturesProxyGet(R, stop_id) ==
    IF stop_id \in DOMAIN R.dep
    THEN [val |-> R.dep[stop_id], R |-> R]
    ELSE StopDeparturesProxyMiss(R, stop_id, QueryDepartures(db.stop_times, stop_id))

\* _TripStopSequenceProxy.get on a miss
TripStopSequenceProxyMiss(R, trip_id, rows) ==
    [val |-> rows,
     R |-> IF Cardinality(DOMAIN R.trip) + R.trip_other > PROXY_CACHE_MAX
           THEN [R EXCEPT !.trip = DictPut(EmptyDict, trip_id, rows), !.trip_other = 0]
           ELSE [R EXCEPT !.trip = DictPut(R.trip, trip_id, rows)]]

\* _TripStopSequenceProxy.get
TripStopSequenceProxyGet(R, trip_id) ==
    IF trip_id \in DOMAIN R.trip
    THEN [val |-> R.trip[trip_id], R |-> R]
    ELSE TripStopSequenceProxyMiss(R, trip_id, QueryTripStops(db.stop_times, trip_id))

\* self.stop_departures.get(stop_id) on either backend
StopDeparturesGet(R, stop_id) ==
    IF R.backend = "mem"
    THEN [val |-> IF stop_id \in DOMAIN stop_departures
                  THEN stop_departures[stop_id] ELSE None,
          R |-> R]
    ELSE StopDeparturesProxyGet(R, stop_id)

\* self.trip_stop_sequence.get(trip_id) on either backend
TripStopSequenceGet(R, trip_id) ==
    IF R.backend = "mem"
    THEN [val |-> IF trip_id \in DOMAIN trip_stop_sequence
                  THEN trip_stop_sequence[trip_id] ELSE None,
          R |-> R]
    ELSE TripStopSequenceProxyGet(R, trip_id)

(***************************************************************************)
(* bisect.bisect_left on the departure times of deps: a 0-based index.     *)
(***************************************************************************)
RECURSIVE BisectSearch(_, _, _, _)
BisectSearch(deps, x, lo, hi) ==
    IF lo >= hi THEN lo
    ELSE LET mid == (lo + hi) \div 2
         IN IF deps[mid + 1].dep_secs < x
            THEN BisectSearch(deps, x, mid + 1, hi)
            ELSE BisectSearch(deps, x, lo, mid)

BisectLeft(deps, x) == BisectSearch(deps, x, 0, Len(deps))

\* One entry of best_legs: (trip_id, from_stop, from_dep_secs, to_stop, to_arr_secs)
RawLeg(trip_id, f_stop, f_dep, t_stop, t_arr) ==
    [trip_id |-> trip_id, f_stop |-> f_stop, f_dep |-> f_dep,
     t_stop |-> t_stop, t_arr |-> t_arr]

\* A variant of TransferReady: no transfer slack
TransferReadyNoSlack(arr_secs) == arr_secs

TransferReady(arr_secs) == arr_secs + MIN_TRANSFER_SECS

(***************************************************************************)
(* find_outbound.  The search state st carries best_arrival, best_legs and *)
(* the router handle R (whose caches the lookups fill).  Every loop of the *)
(* source is one recursive operator; a "break" returns st, a "continue"    *)
(* recurses on the next index.  A lookup g is [val |-> rows, R |-> router].*)
(***************************************************************************)

\* for stop_id, arr_secs, _, seq in trip_stops: the index of the first stop after
\* from_seq that is a dest stop arriving before best_arrival; 0 when the loop ends
\* without a hit.
\* A variant of OutboundHit: an arrival equal to best_arrival is a hit too
RECURSIVE OutboundHitOnTie(_, _, _, _, _)
OutboundHitOnTie(trip_stops, k, from_seq, dest_stops, best_arrival) ==
    IF k > Len(trip_stops) THEN 0
    ELSE IF trip_stops[k].seq <= from_seq
         THEN OutboundHitOnTie(trip_stops, k + 1, from_seq, dest_stops, best_arrival)
    ELSE IF trip_stops[k].stop_id \in dest_stops /\ trip_stops[k].arr_secs <= best_arrival
         THEN k
    ELSE OutboundHitOnTie(trip_stops, k + 1, from_seq, dest_stops, best_arrival)

RECURSIVE OutboundHit(_, _, _, _, _)
OutboundHit(trip_stops, k, from_seq, dest_stops, best_arrival) ==
    IF k > Len(trip_stops) THEN 0
    ELSE IF trip_stops[k].seq <= from_seq
         THEN OutboundHit(trip_stops, k + 1, from_seq, dest_stops, best_arrival)
    ELSE IF trip_stops[k].stop_id \in dest_stops /\ trip_stops[k].arr_secs < best_arrival
         THEN k
    ELSE OutboundHit(trip_stops, k + 1, from_seq, dest_stops, best_arrival)

\* Phase 1: best_arrival / best_legs after the scan of the trip of dep hit stop k
OutboundDirectTake(st, g, k, dep, origin_stop) ==
    IF g.val = None \/ k = 0 THEN [st EXCEPT !.R = g.R]
    ELSE [st EXCEPT !.R = g.R,
                    !.best_arrival = g.val[k].arr_secs,
                    !.best_legs = <<RawLeg(dep.trip_id, origin_stop, dep.dep_secs,
                                           g.val[k].stop_id, g.val[k].arr_secs)>>]

\* Phase 1: one departure dep whose trip_stops lookup is g
OutboundDirectTry(st, g, dep, origin_stop, dest_stops) ==
    OutboundDirectTake(st, g, OutboundHit(g.val, 1, dep.seq, dest_stops, st.best_arrival),
                       dep, origin_stop)

\* A variant of OutboundDirectDeps: the scan stops at the first departure that
\* reaches a dest stop
RECURSIVE OutboundDirectDepsFirstHit(_, _, _, _, _)
RECURSIVE OutboundDirectAfterFirstHit(_, _, _, _, _)
OutboundDirectAfterFirstHit(st, deps, i, origin_stop, dest_stops) ==
    IF st.best_legs # None THEN st
    ELSE OutboundDirectDepsFirstHit(st, deps, i + 1, origin_stop, dest_stops)

OutboundDirectDepsFirstHit(st, deps, i, origin_stop, dest_stops) ==
    IF i > Len(deps) THEN st
    ELSE IF deps[i].dep_secs >= st.best_arrival THEN st
    ELSE OutboundDirectAfterFirstHit(
             OutboundDirectTry(st, TripStopSequenceGet(st.R, deps[i].trip_id), deps[i],
                               origin_stop, dest_stops),
             deps, i, origin_stop, dest_stops)

\* Phase 1, for i in range(idx, len(deps))
RECURSIVE OutboundDirectDeps(_, _, _, _, _)
OutboundDirectDeps(st, deps, i, origin_stop, dest_stops) ==
    IF i > Len(deps) THEN st
    ELSE IF deps[i].dep_secs >= st.best_arrival THEN st
    ELSE OutboundDirectDeps(
             OutboundDirectTry(st, TripStopSequenceGet(st.R, deps[i].trip_id), deps[i],
                               origin_stop, dest_stops),
             deps, i + 1, origin_stop, dest_stops)

\* Phase 1: one origin stop whose departures lookup is g
OutboundDirectFrom(st, g, origin_stop, dest_stops, earliest_departure_secs) ==
    IF g.val = None THEN [st EXCEPT !.R = g.R]
    ELSE OutboundDirectDeps([st EXCEPT !.R = g.R], g.val,
                            BisectLeft(g.val, earliest_departure_secs) + 1,
                            origin_stop, dest_stops)

\* Phase 1, for origin_stop in origin_stops
RECURSIVE OutboundDirect(_, _, _, _, _)
OutboundDirect(st, origin_stops, n, dest_stops, earliest_departure_secs) ==
    IF n > Len(origin_stops) THEN st
    ELSE OutboundDirect(
             OutboundDirectFrom(st, StopDeparturesGet(st.R, origin_stops[n]),
                                origin_stops[n], dest_stops, earliest_departure_secs),
             origin_stops, n + 1, dest_stops, earliest_departure_secs)

\* Phase 2: best_arrival / best_legs after the scan of the connecting trip of conn
\* hit stop k; first is the leg to the intermediate stop
OutboundConnectionTake(st, g, k, conn, first) ==
    IF g.val = None \/ k = 0 THEN [st EXCEPT !.R = g.R]
    ELSE [st EXCEPT !.R = g.R,
                    !.best_arrival = g.val[k].arr_secs,
                    !.best_legs = <<first,
                                    RawLeg(conn.trip_id, first.t_stop, conn.dep_secs,
                                           g.val[k].stop_id, g.val[k].arr_secs)>>]

\* Phase 2: one connecting departure conn whose trip_stops lookup is g
OutboundConnectionTry(st, g, conn, first, dest_stops) ==
    OutboundConnectionTake(st, g,
                           OutboundHit(g.val, 1, conn.seq, dest_stops, st.best_arrival),
                           conn, first)

\* Phase 2, for j in range(conn_idx, len(conn_deps))
RECURSIVE OutboundConnections(_, _, _, _, _, _)
OutboundConnections(st, conn_deps, j, connections_checked, first, dest_stops) ==
    IF j > Len(conn_deps) THEN st
    ELSE IF conn_deps[j].dep_secs >= st.best_arrival THEN st
    ELSE IF conn_deps[j].trip_id = first.trip_id
         THEN OutboundConnections(st, conn_deps, j + 1, connections_checked, first, dest_stops)
    ELSE IF connections_checked + 1 > MAX_CONNECTING_DEPARTURES THEN st
    ELSE OutboundConnections(
             OutboundConnectionTry(st, TripStopSequenceGet(st.R, conn_deps[j].trip_id),
                                   conn_deps[j], first, dest_stops),
             conn_deps, j + 1, connections_checked + 1, first, dest_stops)

\* Phase 2: one intermediate stop (where first ends) whose departures lookup is g
OutboundIntermediateFrom(st, g, first, dest_stops) ==
    IF g.val = None THEN [st EXCEPT !.R = g.R]
    ELSE OutboundConnections([st EXCEPT !.R = g.R], g.val,
                             BisectLeft(g.val, TransferReady(first.t_arr)) + 1,
                             0, first, dest_stops)

\* Phase 2, for stop_id, arr_secs, _, seq in trip_stops (the intermediate stops);
\* dep is the boarding (dep_secs, trip_id, origin_seq)
RECURSIVE OutboundIntermediates(_, _, _, _, _, _, _)
OutboundIntermediates(st, trip_stops, k, intermediates_checked, dep, origin_stop, dest_stops) ==
    IF k > Len(trip_stops) THEN st
    ELSE IF trip_stops[k].seq <= dep.seq
         THEN OutboundIntermediates(st, trip_stops, k + 1, intermediates_checked, dep,
                                    origin_stop, dest_stops)
    ELSE IF trip_stops[k].stop_id \in dest_stops THEN st
    ELSE IF intermediates_checked + 1 > MAX_INTERMEDIATE_STOPS THEN st
    ELSE IF trip_stops[k].arr_secs >= st.best_arrival THEN st
    ELSE OutboundIntermediates(
             OutboundIntermediateFrom(
                 st, StopDeparturesGet(st.R, trip_stops[k].stop_id),
                 RawLeg(dep.trip_id, origin_stop, dep.dep_secs,
                        trip_stops[k].stop_id, trip_stops[k].arr_secs),
                 dest_stops),
             trip_stops, k + 1, intermediates_checked + 1, dep, origin_stop, dest_stops)

\* Phase 2: one departure dep whose trip_stops lookup is g
OutboundTransferTry(st, g, dep, origin_stop, dest_stops) ==
    IF g.val = None THEN [st EXCEPT !.R = g.R]
    ELSE OutboundIntermediates([st EXCEPT !.R = g.R], g.val, 1, 0, dep, origin_stop,
                               dest_stops)

\* Phase 2, for i in range(idx, len(deps))
RECURSIVE OutboundTransferDeps(_, _, _, _, _)
OutboundTransferDeps(st, deps, i, origin_stop, dest_stops) ==
    IF i > Len(deps) THEN st
    ELSE IF deps[i].dep_secs >= st.best_arrival THEN st
    ELSE OutboundTransferDeps(
             OutboundTransferTry(st, TripStopSequenceGet(st.R, deps[i].trip_id), deps[i],
                                 origin_stop, dest_stops),
             deps, i + 1, origin_stop, dest_stops)

\* Phase 2: one origin stop whose departures lookup is g
OutboundTransferFrom(st, g, origin_stop, dest_stops, earliest_departure_secs) ==
    IF g.val = None THEN [st EXCEPT !.R = g.R]
    ELSE OutboundTransferDeps([st EXCEPT !.R = g.R], g.val,
                              BisectLeft(g.val, earliest_departure_secs) + 1,
                              origin_stop, dest_stops)

\* Phase 2, for origin_stop in origin_stops
RECURSIVE OutboundTransfer(_, _, _, _, _)
OutboundTransfer(st, origin_stops, n, dest_stops, earliest_departure_secs) ==
    IF n > Len(origin_stops) THEN st
    ELSE OutboundTransfer(
             OutboundTransferFrom(st, StopDeparturesGet(st.R, origin_stops[n]),
                                  origin_stops[n], dest_stops, earliest_departure_secs),
             origin_stops, n + 1, dest_stops, earliest_departure_secs)

\* _seconds_to_datetime: a datetime is (days after self.date, seconds into that day)
SecondsToDatetime(secs) ==
    [days |-> secs \div SECS_PER_DAY, seconds |-> secs % SECS_PER_DAY]

\* A datetime as seconds since midnight of the travel date
DatetimeSecs(dt) == dt.days * SECS_PER_DAY + dt.seconds

\* _make_bus_leg.  line and operator are looked up from the trip; the model keeps
\* the trip itself in their place.
MakeBusLeg(raw) ==
    [trip_id |-> raw.trip_id,
     from_stop_id |-> raw.f_stop,
     to_stop_id |-> raw.t_stop,
     departure |-> SecondsToDatetime(raw.f_dep),
     arrival |-> SecondsToDatetime(raw.t_arr)]

MakeBusLegs(best_legs) == [i \in 1..Len(best_legs) |-> MakeBusLeg(best_legs[i])]

\* What a search returns: [legs |-> the BusLegs or None, best_legs |-> the raw
\* legs, R |-> the router afterwards]
SearchResult(st) ==
    [legs |-> MakeBusLegs(st.best_legs), best_legs |-> st.best_legs, R |-> st.R]

\* The whole search of find_outbound: the final search state.
OutboundSearch(R, origin_stops, dest_stops, earliest_departure_secs) ==
    OutboundTransfer(
        OutboundDirect([best_arrival |-> INF, best_legs |-> None, R |-> R],
                       origin_stops, 1, dest_stops, earliest_departure_secs),
        origin_stops, 1, dest_stops, earliest_departure_secs)

find_outbound(R, origin_stops, dest_stops, earliest_departure_secs) ==
    SearchResult(OutboundSearch(R, origin_stops, dest_stops, earliest_departure_secs))

(***************************************************************************)
(* find_return.  The search state carries best_trail_dep and best_legs.    *)
(***************************************************************************)

\* A variant of ReturnHit: the arrival is not compared with the deadline
RECURSIVE ReturnHitAnyArrival(_, _, _, _, _)
ReturnHitAnyArrival(trip_stops, k, from_seq, origin_stops, deadline_secs) ==
    IF k > Len(trip_stops) THEN 0
    ELSE IF trip_stops[k].seq <= from_seq
         THEN ReturnHitAnyArrival(trip_stops, k + 1, from_seq, origin_stops, deadline_secs)
    ELSE IF trip_stops[k].stop_id \in origin_stops THEN k
    ELSE ReturnHitAnyArrival(trip_stops, k + 1, from_seq, origin_stops, deadline_secs)

\* for stop_id, arr_secs, _, seq in trip_stops: the index of the first stop after
\* from_seq that is an origin stop reached by the deadline; 0 when there is none.
RECURSIVE ReturnHit(_, _, _, _, _)
ReturnHit(trip_stops, k, from_seq, origin_stops, deadline_secs) ==
    IF k > Len(trip_stops) THEN 0
    ELSE IF trip_stops[k].seq <= from_seq
         THEN ReturnHit(trip_stops, k + 1, from_seq, origin_stops, deadline_secs)
    ELSE IF trip_stops[k].stop_id \in origin_stops /\ trip_stops[k].arr_secs <= deadline_secs
         THEN k
    ELSE ReturnHit(trip_stops, k + 1, from_seq, origin_stops, deadline_secs)

\* Phase 1: best_trail_dep / best_legs after the scan of the trip of dep hit stop k
ReturnDirectTake(st, g, k, dep, trail_stop) ==
    IF g.val = None \/ k = 0 \/ ~(dep.dep_secs > st.best_trail_dep)
    THEN [st EXCEPT !.R = g.R]
    ELSE [st EXCEPT !.R = g.R,
                    !.best_trail_dep = dep.dep_secs,
                    !.best_legs = <<RawLeg(dep.trip_id, trail_stop, dep.dep_secs,
                                           g.val[k].stop_id, g.val[k].arr_secs)>>]

\* Phase 1: one departure dep whose trip_stops lookup is g
ReturnDirectTry(st, g, dep, trail_stop, origin_stops, deadline_secs) ==
    ReturnDirectTake(st, g, ReturnHit(g.val, 1, dep.seq, origin_stops, deadline_secs),
                     dep, trail_stop)

\* Phase 1, for i in range(len(deps) - 1, -1, -1)
RECURSIVE ReturnDirectDeps(_, _, _, _, _, _, _)
ReturnDirectDeps(st, deps, i, checked, trail_stop, origin_stops, deadline_secs) ==
    IF i < 1 THEN st
    ELSE IF deps[i].dep_secs > deadline_secs
         THEN ReturnDirectDeps(st, deps, i - 1, checked, trail_stop, origin_stops,
                               deadline_secs)
    ELSE IF deps[i].dep_secs <= st.best_trail_dep THEN st
    ELSE IF checked + 1 > MAX_RETURN_DEPARTURES THEN st
    ELSE ReturnDirectDeps(
             ReturnDirectTry(st, TripStopSequenceGet(st.R, deps[i].trip_id), deps[i],
                             trail_stop, origin_stops, deadline_secs),
             deps, i - 1, checked + 1, trail_stop, origin_stops, deadline_secs)

\* Phase 1: one trail stop whose departures lookup is g
ReturnDirectFrom(st, g, trail_stop, origin_stops, deadline_secs) ==
    IF g.val = None THEN [st EXCEPT !.R = g.R]
    ELSE ReturnDirectDeps([st EXCEPT !.R = g.R], g.val, Len(g.val), 0, trail_stop,
                          origin_stops, deadline_secs)

\* Phase 1, for trail_stop in trail_stops
RECURSIVE ReturnDirect(_, _, _, _, _)
ReturnDirect(st, trail_stops, n, origin_stops, deadline_secs) ==
    IF n > Len(trail_stops) THEN st
    ELSE ReturnDirect(
             ReturnDirectFrom(st, StopDeparturesGet(st.R, trail_stops[n]), trail_stops[n],
                              origin_stops, deadline_secs),
             trail_stops, n + 1, origin_stops, deadline_secs)

\* Phase 2: best_trail_dep / best_legs after the scan of the connecting trip of
\* conn hit stop k; first is the leg from the trail stop to the intermediate stop
ReturnConnectionTake(st, g, k, conn, first) ==
    IF g.val = None \/ k = 0 \/ ~(first.f_dep > st.best_trail_dep)
    THEN [st EXCEPT !.R = g.R]
    ELSE [st EXCEPT !.R = g.R,
                    !.best_trail_dep = first.f_dep,
                    !.best_legs = <<first,
                                    RawLeg(conn.trip_id, first.t_stop, conn.dep_secs,
                                           g.val[k].stop_id, g.val[k].arr_secs)>>]

\* Phase 2: one connecting departure conn whose trip_stops lookup is g
ReturnConnectionTry(st, g, conn, first, origin_stops, deadline_secs) ==
    ReturnConnectionTake(st, g,
                         ReturnHit(g.val, 1, conn.seq, origin_stops, deadline_secs),
                         conn, first)

\* Phase 2, for j in range(conn_idx, len(conn_deps))
RECURSIVE ReturnConnections(_, _, _, _, _, _, _)
ReturnConnections(st, conn_deps, j, connections_checked, first, origin_stops, deadline_secs) ==
    IF j > Len(conn_deps) THEN st
    ELSE IF conn_deps[j].dep_secs > deadline_secs THEN st
    ELSE IF conn_deps[j].trip_id = first.trip_id
         THEN ReturnConnections(st, conn_deps, j + 1, connections_checked, first,
                                origin_stops, deadline_secs)
    ELSE IF connections_checked + 1 > MAX_CONNECTING_DEPARTURES THEN st
    ELSE ReturnConnections(
             ReturnConnectionTry(st, TripStopSequenceGet(st.R, conn_deps[j].trip_id),
                                 conn_deps[j], first, origin_stops, deadline_secs),
             conn_deps, j + 1, connections_checked + 1, first, origin_stops, deadline_secs)

\* Phase 2: one intermediate stop (where first ends) whose departures lookup is g
ReturnIntermediateFrom(st, g, first, origin_stops, deadline_secs) ==
    IF g.val = None THEN [st EXCEPT !.R = g.R]
    ELSE ReturnConnections([st EXCEPT !.R = g.R], g.val,
                           BisectLeft(g.val, TransferReady(first.t_arr)) + 1,
                           0, first, origin_stops, deadline_secs)

\* Phase 2, for stop_id, arr_secs, _, seq in trip_stops (the intermediate stops)
RECURSIVE ReturnIntermediates(_, _, _, _, _, _, _, _)
ReturnIntermediates(st, trip_stops, k, intermediates_checked, dep, trail_stop, origin_stops, deadline_secs) ==
    IF k > Len(trip_stops) THEN st
    ELSE IF trip_stops[k].seq <= dep.seq
         THEN ReturnIntermediates(st, trip_stops, k + 1, intermediates_checked, dep,
                                  trail_stop, origin_stops, deadline_secs)
    ELSE IF trip_stops[k].stop_id \in origin_stops THEN st
    ELSE IF intermediates_checked + 1 > MAX_INTERMEDIATE_STOPS THEN st
    ELSE IF trip_stops[k].arr_secs > deadline_secs THEN st
    ELSE ReturnIntermediates(
             ReturnIntermediateFrom(
                 st, StopDeparturesGet(st.R, trip_stops[k].stop_id),
                 RawLeg(dep.trip_id, trail_stop, dep.dep_secs,
                        trip_stops[k].stop_id, trip_stops[k].arr_secs),
                 origin_stops, deadline_secs),
             trip_stops, k + 1, intermediates_checked + 1, dep, trail_stop, origin_stops,
             deadline_secs)

\* Phase 2: one departure dep whose trip_stops lookup is g
ReturnTransferTry(st, g, dep, trail_stop, origin_stops, deadline_secs) ==
    IF g.val = None THEN [st EXCEPT !.R = g.R]
    ELSE ReturnIntermediates([st EXCEPT !.R = g.R], g.val, 1, 0, dep, trail_stop,
                             origin_stops, deadline_secs)

\* Phase 2, for i in range(len(deps) - 1, -1, -1)
RECURSIVE ReturnTransferDeps(_, _, _, _, _, _, _)
ReturnTransferDeps(st, deps, i, checked, trail_stop, origin_stops, deadline_secs) ==
    IF i < 1 THEN st
    ELSE IF deps[i].dep_secs > deadline_secs
         THEN ReturnTransferDeps(st, deps, i - 1, checked, trail_stop, origin_stops,
                                 deadline_secs)
    ELSE IF deps[i].dep_secs <= st.best_trail_dep THEN st
    ELSE IF checked + 1 > MAX_RETURN_DEPARTURES THEN st
    ELSE ReturnTransferDeps(
             ReturnTransferTry(st, TripStopSequenceGet(st.R, deps[i].trip_id), deps[i],
                               trail_stop, origin_stops, deadline_secs),
             deps, i - 1, checked + 1, trail_stop, origin_stops, deadline_secs)

\* Phase 2: one trail stop whose departures lookup is g
ReturnTransferFrom(st, g, trail_stop, origin_stops, deadline_secs) ==
    IF g.val = None THEN [st EXCEPT !.R = g.R]
    ELSE ReturnTransferDeps([st EXCEPT !.R = g.R], g.val, Len(g.val), 0, trail_stop,
                            origin_stops, deadline_secs)

\* Phase 2, for trail_stop in trail_stops
RECURSIVE ReturnTransfer(_, _, _, _, _)
ReturnTransfer(st, trail_stops, n, origin_stops, deadline_secs) ==
    IF n > Len(trail_stops) THEN st
    ELSE ReturnTransfer(
             ReturnTransferFrom(st, StopDeparturesGet(st.R, trail_stops[n]),
                                trail_stops[n], origin_stops, deadline_secs),
             trail_stops, n + 1, origin_stops, deadline_secs)

\* The whole search of find_return: the final search state.
ReturnSearch(R, trail_stops, origin_stops, deadline_secs) ==
    ReturnTransfer(
        ReturnDirect([best_trail_dep |-> -1, best_legs |-> None, R |-> R],
                     trail_stops, 1, origin_stops, deadline_secs),
        trail_stops, 1, origin_stops, deadline_secs)

find_return(R, trail_stops, origin_stops, deadline_secs) ==
    SearchResult(ReturnSearch(R, trail_stops, origin_stops, deadline_secs))

(***************************************************************************)
(* Date filtering: the active services of a date, and the two stores that  *)
(* are built from them.                                                    *)
(***************************************************************************)

\* _gtfs_time_to_seconds
GtfsTimeToSeconds(t) == t[1] * 3600 + t[2] * 60 + t[3]

\* calendar.txt rows of _get_active_service_ids_from_csv: the services whose row
\* covers the date and has the weekday column "1"
CalendarActive(calendar, d) ==
    {calendar[i].service_id : i \in {j \in 1..Len(calendar) :
        /\ calendar[j].start_date <= d.ymd
        /\ d.ymd <= calendar[j].end_date
        /\ calendar[j].days[d.day_name] = 1}}

\* calendar_dates.txt rows of _get_active_service_ids_from_csv, one row after
\* the other: type 1 adds the service, type 2 discards it
RECURSIVE ApplyCalendarDates(_, _, _, _)
ApplyCalendarDates(active, calendar_dates, i, d) ==
    IF i > Len(calendar_dates) THEN active
    ELSE LET row == calendar_dates[i]
         IN IF row.date # d.ymd
            THEN ApplyCalendarDates(active, calendar_dates, i + 1, d)
            ELSE IF row.exception_type = 1
            THEN ApplyCalendarDates(active \cup {row.service_id}, calendar_dates, i + 1, d)
            ELSE IF row.exception_type = 2
            THEN ApplyCalendarDates(active \ {row.service_id}, calendar_dates, i + 1, d)
            ELSE ApplyCalendarDates(active, calendar_dates, i + 1, d)

\* _get_active_service_ids_from_csv
get_active_service_ids_from_csv(f, d) ==
    ApplyCalendarDates(CalendarActive(f.calendar, d), f.calendar_dates, 1, d)

\* get_active_service_ids: the calendar matches, plus all additions of the date,
\* minus all removals of the date
get_active_service_ids(f, d) ==
    LET on_date == {i \in 1..Len(f.calendar_dates) : f.calendar_dates[i].date = d.ymd}
        additions == {f.calendar_dates[i].service_id :
                         i \in {j \in on_date : f.calendar_dates[j].exception_type = 1}}
        removals == {f.calendar_dates[i].service_id :
                         i \in {j \in on_date : f.calendar_dates[j].exception_type = 2}}
    IN (CalendarActive(f.calendar, d) \cup additions) \ removals

RECURSIVE FilterSeq(_, _, _)
\* The rows of a table whose field is in keep, in table order.
FilterSeq(rows, field, keep) ==
    IF rows = <<>> THEN <<>>
    ELSE LET rest == FilterSeq(SubSeq(rows, 1, Len(rows) - 1), field, keep)
             r == rows[Len(rows)]
         IN IF r[field] \in keep THEN Append(rest, r) ELSE rest

\* load_feed_for_date: trips of the active services, stop_times of those trips
load_feed_for_date(f, d) ==
    LET filtered_trips == FilterSeq(f.trips, "service_id", get_active_service_ids(f, d))
        active_trip_ids == {filtered_trips[i].trip_id : i \in 1..Len(filtered_trips)}
    IN [trips |-> filtered_trips,
        stop_times |-> FilterSeq(f.stop_times, "trip_id", active_trip_ids)]

\* One row of the stop_times table: the times parsed to integer seconds
DbStopTimeRow(r) ==
    [trip_id |-> r.trip_id, stop_id |-> r.stop_id, stop_sequence |-> r.stop_sequence,
     arrival_secs |-> GtfsTimeToSeconds(r.arrival_time),
     departure_secs |-> GtfsTimeToSeconds(r.departure_time)]

\* build_transit_db, steps 1, 4 and 6: the trips and stop_times tables
build_transit_db(f, d) ==
    LET active_trips == FilterSeq(f.trips, "service_id",
                                  get_active_service_ids_from_csv(f, d))
        active_trip_ids == {active_trips[i].trip_id : i \in 1..Len(active_trips)}
        kept == FilterSeq(f.stop_times, "trip_id", active_trip_ids)
    IN [trips |-> [i \in 1..Len(active_trips) |->
                      [trip_id |-> active_trips[i].trip_id,
                       route_id |-> active_trips[i].route_id]],
        stop_times |-> [i \in 1..Len(kept) |-> DbStopTimeRow(kept[i])]]

(***************************************************************************)
(* The schedules of the model.  A feed is a choice of at most MaxTrips     *)
(* trips of a pool, in pool order, followed by the rows of a "crowd": a    *)
(* run of further departures at one stop, or one trip with many stops,     *)
(* sized around the router's search caps.                                  *)
(***************************************************************************)
TripRows(trip_id, visits) ==
    [i \in 1..Len(visits) |->
        [trip_id |-> trip_id, stop_id |-> visits[i][1], stop_sequence |-> i,
         arrival_time |-> visits[i][2], departure_time |-> visits[i][3]]]

RouterPool ==
    << TripRows("o1", << <<"A", <<7, 0, 0>>, <<7, 0, 0>> >>,
                         <<"B", <<7, 30, 0>>, <<7, 30, 0>> >>,
                         <<"C", <<8, 0, 0>>, <<8, 0, 0>> >> >>),
       TripRows("o2", << <<"A", <<7, 10, 0>>, <<7, 10, 0>> >>,
                         <<"B", <<7, 20, 0>>, <<7, 20, 0>> >> >>),
       TripRows("o3", << <<"B", <<7, 22, 0>>, <<7, 22, 0>> >>,
                         <<"C", <<7, 40, 0>>, <<7, 40, 0>> >> >>),
       TripRows("o4", << <<"B", <<7, 20, 30>>, <<7, 20, 30>> >>,
                         <<"C", <<7, 35, 0>>, <<7, 35, 0>> >> >>),
       TripRows("o5", << <<"A2", <<6, 30, 0>>, <<6, 30, 0>> >>,
                         <<"C", <<7, 30, 0>>, <<7, 30, 0>> >> >>),
       TripRows("o6", << <<"A", <<7, 10, 0>>, <<7, 10, 0>> >>,
                         <<"C", <<7, 45, 0>>, <<7, 45, 0>> >> >>),
       TripRows("r1", << <<"C", <<15, 0, 0>>, <<15, 0, 0>> >>,
                         <<"B", <<15, 30, 0>>, <<15, 30, 0>> >>,
                         <<"A", <<16, 0, 0>>, <<16, 0, 0>> >> >>),
       TripRows("r2", << <<"C", <<16, 0, 0>>, <<16, 0, 0>> >>,
                         <<"B", <<16, 30, 0>>, <<16, 30, 0>> >> >>),
       TripRows("r3", << <<"B", <<16, 32, 0>>, <<16, 32, 0>> >>,
                         <<"A", <<17, 0, 0>>, <<17, 0, 0>> >> >>),
       TripRows("r4", << <<"C", <<17, 30, 0>>, <<17, 30, 0>> >>,
                         <<"A", <<18, 30, 0>>, <<18, 30, 0>> >> >>) >>

FillerTrips == <<"f1", "f2", "f3", "f4", "f5", "f6", "f7", "f8", "f9", "f10", "f11">>

FillerStops == <<"X1", "X2", "X3", "X4", "X5", "X6", "X7", "X8", "X9", "X10",
                 "X11", "X12", "X13", "X14", "X15", "X16", "X17", "X18", "X19", "X20",
                 "X21", "X22", "X23", "X24", "X25", "X26", "X27", "X28", "X29", "X30",
                 "X31">>

RECURSIVE Concat(_)
Concat(seqs) == IF seqs = <<>> THEN <<>> ELSE Head(seqs) \o Concat(Tail(seqs))

\* n trips from stop at dep to "X": departures that lead neither to the trail nor
\* to the origin
Fillers(n, stop, dep, arr) ==
    Concat([i \in 1..n |-> TripRows(FillerTrips[i], << <<stop, dep, dep>>,
                                                      <<"X", arr, arr>> >>)])

\* One trip "long" from first through n further stops (a minute apart) to final
LongTrip(n, first, dep, final, arr) ==
    TripRows("long",
             << <<first, dep, dep>> >>
             \o [i \in 1..n |-> <<FillerStops[i], <<dep[1], dep[2] + i, 0>>,
                                  <<dep[1], dep[2] + i, 0>> >>]
             \o << <<final, arr, arr>> >>)

CrowdKinds == {"conn", "rconn", "ret", "long"}

Crowds == {[kind |-> "none", n |-> 0]}
          \cup {[kind |-> "conn", n |-> n] :
                   n \in {MAX_CONNECTING_DEPARTURES - 1, MAX_CONNECTING_DEPARTURES}}
          \cup {[kind |-> "rconn", n |-> n] :
                   n \in {MAX_CONNECTING_DEPARTURES - 1, MAX_CONNECTING_DEPARTURES}}
          \cup {[kind |-> "ret", n |-> n] :
                   n \in {MAX_RETURN_DEPARTURES - 1, MAX_RETURN_DEPARTURES}}
          \cup {[kind |-> "long", n |-> n] :
                   n \in {MAX_INTERMEDIATE_STOPS - 1, MAX_INTERMEDIATE_STOPS}}

CrowdRows(c) ==
    CASE c.kind = "none" -> <<>>
      [] c.kind = "conn" -> Fillers(c.n, "B", <<7, 21, 0>>, <<7, 45, 0>>)
      [] c.kind = "rconn" -> Fillers(c.n, "B", <<16, 31, 0>>, <<16, 50, 0>>)
      [] c.kind = "ret" -> Fillers(c.n, "C", <<17, 40, 0>>, <<17, 55, 0>>)
      [] c.kind = "long" -> LongTrip(c.n, "A", <<6, 40, 0>>, "B", <<7, 20, 0>>)

RECURSIVE PoolRows(_, _, _)
\* The rows of the trips of pool chosen by the index set S, in pool order
PoolRows(pool, S, i) ==
    IF i > Len(pool) THEN <<>>
    ELSE (IF i \in S THEN pool[i] ELSE <<>>) \o PoolRows(pool, S, i + 1)

TripChoices(pool, max) == {S \in SUBSET (1..Len(pool)) : Cardinality(S) <= max}

RECURSIVE TripIdSeq(_, _)
\* The trip ids of a row sequence, each once, in order of first appearance
TripIdSeq(rows, seen) ==
    IF rows = <<>> THEN <<>>
    ELSE IF Head(rows).trip_id \in seen THEN TripIdSeq(Tail(rows), seen)
    ELSE <<Head(rows).trip_id>> \o TripIdSeq(Tail(rows), seen \cup {Head(rows).trip_id})

AllDays == [d \in {"monday", "tuesday", "wednesday", "thursday", "friday",
                   "saturday", "sunday"} |-> 1]

\* A feed whose trips all run on one service that is active every day of 2026
EverydayFeed(rows) ==
    LET ids == TripIdSeq(rows, {})
    IN [calendar |-> <<[service_id |-> "svc1", start_date |-> 20260101,
                        end_date |-> 20261231, days |-> AllDays]>>,
        calendar_dates |-> <<>>,
        trips |-> [i \in 1..Len(ids) |-> [trip_id |-> ids[i], route_id |-> ids[i],
                                          service_id |-> "svc1"]],
        stop_times |-> rows]

Tuesday == [ymd |-> 20260203, day_name |-> "tuesday"]

RouterFeeds ==
    {EverydayFeed(PoolRows(RouterPool, S, 1) \o CrowdRows(c)) :
        S \in TripChoices(RouterPool, MaxTrips), c \in Crowds}

\* Trips whose itineraries tie: equal arrivals at C from A and A2, direct and
\* with a transfer at B; equal departures from C and C2, direct and with a
\* transfer at B.  Each entry is one trip or one connecting pair of trips.
TiePool ==
    << TripRows("t1", << <<"A", <<7, 6, 0>>, <<7, 6, 0>> >>,
                         <<"C", <<7, 50, 0>>, <<7, 50, 0>> >> >>),
       TripRows("t2", << <<"A", <<7, 8, 0>>, <<7, 8, 0>> >>,
                         <<"C", <<7, 50, 0>>, <<7, 50, 0>> >> >>),
       TripRows("t3", << <<"A2", <<7, 7, 0>>, <<7, 7, 0>> >>,
                         <<"C", <<7, 50, 0>>, <<7, 50, 0>> >> >>),
       TripRows("t4", << <<"A", <<7, 6, 0>>, <<7, 6, 0>> >>,
                         <<"B", <<7, 20, 0>>, <<7, 20, 0>> >> >>)
         \o TripRows("t5", << <<"B", <<7, 25, 0>>, <<7, 25, 0>> >>,
                              <<"C", <<7, 50, 0>>, <<7, 50, 0>> >> >>),
       TripRows("t6", << <<"A2", <<7, 7, 0>>, <<7, 7, 0>> >>,
                         <<"B", <<7, 15, 0>>, <<7, 15, 0>> >> >>),
       TripRows("u1", << <<"C", <<15, 10, 0>>, <<15, 10, 0>> >>,
                         <<"A", <<16, 10, 0>>, <<16, 10, 0>> >> >>),
       TripRows("u2", << <<"C", <<15, 10, 0>>, <<15, 10, 0>> >>,
                         <<"A", <<16, 20, 0>>, <<16, 20, 0>> >> >>),
       TripRows("u3", << <<"C", <<15, 10, 0>>, <<15, 10, 0>> >>,
                         <<"B", <<15, 30, 0>>, <<15, 30, 0>> >> >>)
         \o TripRows("u4", << <<"B", <<15, 40, 0>>, <<15, 40, 0>> >>,
                              <<"A", <<16, 40, 0>>, <<16, 40, 0>> >> >>),
       TripRows("u5", << <<"C2", <<15, 10, 0>>, <<15, 10, 0>> >>,
                         <<"A", <<16, 5, 0>>, <<16, 5, 0>> >> >>),
       TripRows("u6", << <<"C2", <<15, 10, 0>>, <<15, 10, 0>> >>,
                         <<"B", <<15, 35, 0>>, <<15, 35, 0>> >> >>) >>

TieFeeds ==
    {EverydayFeed(PoolRows(TiePool, S, 1)) : S \in TripChoices(TiePool, MaxTrips)}

(***************************************************************************)
(* The router calls of the model.                                          *)
(***************************************************************************)
OriginLists == {<<"A">>, <<"A", "A2">>}
TrailLists == {<<"C">>}
ToSet(seq) == {seq[i] : i \in 1..Len(seq)}
EarliestDepartures == {6 * 3600, 7 * 3600 + 5 * 60, 7 * 3600 + 15 * 60}
Deadlines == {14 * 3600, 17 * 3600, 18 * 3600}

NoCall == [op |-> "none", backend |-> "none", starts |-> <<>>, targets |-> {},
           secs |-> 0, legs |-> None, best_legs |-> None]

CallRecord(op, R, starts, targets, secs, res) ==
    [op |-> op, backend |-> R.backend, starts |-> starts, targets |-> targets,
     secs |-> secs, legs |-> res.legs, best_legs |-> res.best_legs]

NoRequest == [op |-> "none", starts |-> <<>>, targets |-> {}, secs |-> 0]

NoQuery == [origin_stop_ids |-> <<>>, earliest_departure |-> None,
            min_hiking_secs |-> 0, max_results |-> 0]

\* No trails loaded, no query pending, nothing planned
PlannerIdle ==
    /\ trails = <<>>
    /\ query = NoQuery
    /\ plans = <<>>
    /\ served = NoQuery
    /\ trail_plans = <<>>

\* No web context loaded, no spatial join under way
IndexIdle ==
    /\ ctx_date = None
    /\ dedup_input = <<>>
    /\ dedup_results = <<>>

\* No context has been asked for and nothing has been rejected
NoContextCall ==
    [date |-> None, outcome |-> "none", returned |-> None, prepared |-> FALSE,
     before |-> None]

ContextIdle ==
    /\ error = None
    /\ store_files = {}
    /\ handles = {}
    /\ ctx = None
    /\ ctx_call = NoContextCall

\* No build_transit_db run is under way
BuildIdle ==
    /\ fs = [final |-> 0, tmp |-> 0]
    /\ inode = <<>>
    /\ run = <<>>

OutboundRequests ==
    {[op |-> "find_outbound", starts |-> o, targets |-> ToSet(t), secs |-> e] :
        o \in OriginLists, t \in TrailLists, e \in EarliestDepartures}

ReturnRequests ==
    {[op |-> "find_return", starts |-> t, targets |-> ToSet(o), secs |-> d] :
        t \in TrailLists, o \in OriginLists, d \in Deadlines}

\* Calls with two trail stops, for the feeds of TiePool
TieRequests ==
    {[op |-> "find_outbound", starts |-> o, targets |-> {"C", "C2"}, secs |-> e] :
        o \in OriginLists, e \in EarliestDepartures}
    \cup {[op |-> "find_return", starts |-> <<"C", "C2">>, targets |-> ToSet(o), secs |-> d] :
             o \in OriginLists, d \in Deadlines}

\* The stores and routers as prepare_data / prepare_data_from_index leave them;
\* ff is the date-filtered feed
PreparedFrom(f, d, ff) ==
    /\ feed = f
    /\ date = d
    /\ filtered = ff
    /\ db = build_transit_db(f, d)
    /\ stop_departures = BuildStopDepartures(ff.stop_times)
    /\ trip_stop_sequence = BuildTripStopSequence(ff.stop_times)
    /\ dep_cache = EmptyDict
    /\ trip_cache = EmptyDict
    /\ last = NoCall

Prepared(f, d) == PreparedFrom(f, d, load_feed_for_date(f, d))

\* The in-memory router over a feed, and one call about to be made on it
Init ==
    /\ \E f \in RouterFeeds \cup TieFeeds : Prepared(f, Tuesday)
    /\ dep_cache_other = 0
    /\ trip_cache_other = 0
    /\ request \in OutboundRequests \cup ReturnRequests \cup TieRequests
    /\ PlannerIdle
    /\ IndexIdle
    /\ ContextIdle
    /\ BuildIdle

\* The caller receives res; the proxies keep what the lookups cached
Returned(op, R, starts, targets, secs, res) ==
    /\ last' = CallRecord(op, R, starts, targets, secs, res)
    /\ dep_cache' = res.R.dep
    /\ trip_cache' = res.R.trip
    /\ dep_cache_other' = res.R.dep_other
    /\ trip_cache_other' = res.R.trip_other
    /\ UNCHANGED <<feed, date, filtered, db, stop_departures, trip_stop_sequence,
                   trails, query, plans, served, trail_plans, ctx_date,
                   dedup_input, dedup_results,
                   error, store_files, handles, ctx, ctx_call,
                   fs, inode, run>>

\* One call of find_outbound on router R
FindOutbound(R, origin_stops, dest_stops, earliest_departure_secs) ==
    Returned("find_outbound", R, origin_stops, dest_stops, earliest_departure_secs,
             find_outbound(R, origin_stops, dest_stops, earliest_departure_secs))

\* One call of find_return on router R
FindReturn(R, trail_stops, origin_stops, deadline_secs) ==
    Returned("find_return", R, trail_stops, origin_stops, deadline_secs,
             find_return(R, trail_stops, origin_stops, deadline_secs))

MemFindOutbound ==
    /\ request.op = "find_outbound"
    /\ FindOutbound(MemRouter, request.starts, request.targets, request.secs)
    /\ request' = NoRequest

MemFindReturn ==
    /\ request.op = "find_return"
    /\ FindReturn(MemRouter, request.starts, request.targets, request.secs)
    /\ request' = NoRequest

Next == MemFindOutbound \/ MemFindReturn

Spec == Init /\ [][Next]_vars

(***************************************************************************)
(* The on-disk router.  Its proxies may already hold rows of stops and     *)
(* trips outside the model, left by earlier queries of the same process.   *)
(***************************************************************************)
DbPool ==
    << TripRows("o1", << <<"A", <<7, 0, 0>>, <<7, 0, 0>> >>,
                         <<"B", <<7, 30, 0>>, <<7, 30, 0>> >>,
                         <<"C", <<8, 0, 0>>, <<8, 0, 0>> >> >>),
       TripRows("o7", << <<"A", <<7, 0, 0>>, <<7, 0, 0>> >>,
                         <<"C", <<8, 0, 0>>, <<8, 0, 0>> >> >>),
       TripRows("o2", << <<"A", <<7, 10, 0>>, <<7, 10, 0>> >>,
                         <<"B", <<7, 20, 0>>, <<7, 20, 0>> >> >>),
       TripRows("o3", << <<"B", <<7, 22, 0>>, <<7, 22, 0>> >>,
                         <<"C", <<7, 40, 0>>, <<7, 40, 0>> >> >>),
       TripRows("r1", << <<"C", <<15, 0, 0>>, <<15, 0, 0>> >>,
                         <<"B", <<15, 30, 0>>, <<15, 30, 0>> >>,
                         <<"A", <<16, 0, 0>>, <<16, 0, 0>> >> >>),
       TripRows("r5", << <<"C", <<15, 0, 0>>, <<15, 0, 0>> >>,
                         <<"A", <<16, 0, 0>>, <<16, 0, 0>> >> >>) >>

DbFeeds == {EverydayFeed(PoolRows(DbPool, S, 1)) : S \in TripChoices(DbPool, MaxTrips)}

CacheLoads == {0, PROXY_CACHE_MAX}

InitDB ==
    /\ \E f \in DbFeeds : Prepared(f, Tuesday)
    /\ dep_cache_other \in CacheLoads
    /\ trip_cache_other \in CacheLoads
    /\ request = NoRequest
    /\ PlannerIdle
    /\ IndexIdle
    /\ ContextIdle
    /\ BuildIdle

DbFindOutbound ==
    /\ \E r \in OutboundRequests : FindOutbound(DBRouter, r.starts, r.targets, r.secs)
    /\ UNCHANGED request

DbFindReturn ==
    /\ \E r \in ReturnRequests : FindReturn(DBRouter, r.starts, r.targets, r.secs)
    /\ UNCHANGED request

NextDB == DbFindOutbound \/ DbFindReturn

SpecDB == InitDB /\ [][NextDB]_vars

(***************************************************************************)
(* The two date-specific stores over feeds whose calendar and              *)
(* calendar_dates vary: a service inside or outside its calendar range,    *)
(* running or not on the weekday, with exception rows of both types, on    *)
(* the date and on another date, in every row order.                       *)
(***************************************************************************)
Wednesday == [ymd |-> 20260204, day_name |-> "wednesday"]

StoreDates == {Tuesday, Wednesday}

TuesdaysOnly == [d \in DOMAIN AllDays |-> IF d = "tuesday" THEN 1 ELSE 0]

CalendarRow(service_id, start_date, end_date, days) ==
    [service_id |-> service_id, start_date |-> start_date, end_date |-> end_date,
     days |-> days]

CalendarChoices ==
    { <<>>,
      <<CalendarRow("svc1", 20260101, 20261231, TuesdaysOnly)>>,
      <<CalendarRow("svc1", 20260204, 20261231, AllDays)>>,
      <<CalendarRow("svc1", 20260101, 20260203, AllDays),
        CalendarRow("svc2", 20260101, 20261231, AllDays)>> }

ExceptionRows ==
    {[service_id |-> "svc1", date |-> Tuesday.ymd, exception_type |-> 1],
     [service_id |-> "svc1", date |-> Tuesday.ymd, exception_type |-> 2],
     [service_id |-> "svc2", date |-> Tuesday.ymd, exception_type |-> 2],
     [service_id |-> "svc1", date |-> Wednesday.ymd, exception_type |-> 2]}

CalendarDatesChoices == UNION {[1..n -> ExceptionRows] : n \in 0..MaxExceptions}

\* trips.txt: one trip per service; stop_times.txt also has rows of a trip
\* that trips.txt does not list
StoreTrips ==
    <<[trip_id |-> "t1", route_id |-> "r1", service_id |-> "svc1"],
      [trip_id |-> "t2", route_id |-> "r2", service_id |-> "svc2"]>>

StoreStopTimes ==
    TripRows("t1", << <<"A", <<7, 0, 0>>, <<7, 0, 0>> >>,
                      <<"C", <<8, 0, 0>>, <<8, 0, 0>> >> >>)
    \o TripRows("t2", << <<"C", <<15, 0, 0>>, <<15, 0, 0>> >>,
                         <<"A", <<16, 0, 0>>, <<16, 0, 0>> >> >>)
    \o TripRows("t3", << <<"A", <<9, 0, 0>>, <<9, 0, 0>> >> >>)

StoreFeeds ==
    {[calendar |-> c, calendar_dates |-> x, trips |-> StoreTrips,
      stop_times |-> StoreStopTimes] : c \in CalendarChoices, x \in CalendarDatesChoices}

\* The feed is on disk; neither store has been built
InitStore ==
    /\ feed \in StoreFeeds
    /\ date \in StoreDates
    /\ filtered = None
    /\ db = None
    /\ stop_departures = EmptyDict
    /\ trip_stop_sequence = EmptyDict
    /\ dep_cache = EmptyDict
    /\ trip_cache = EmptyDict
    /\ dep_cache_other = 0
    /\ trip_cache_other = 0
    /\ request = NoRequest
    /\ last = NoCall
    /\ PlannerIdle
    /\ IndexIdle
    /\ ContextIdle
    /\ BuildIdle

\* load_feed_for_date(gtfs_path, date)
LoadFeedForDate ==
    /\ filtered' = load_feed_for_date(feed, date)
    /\ UNCHANGED <<feed, date, db, stop_departures, trip_stop_sequence, dep_cache,
                   trip_cache, dep_cache_other, trip_cache_other, request, last,
                   trails, query, plans, served, trail_plans, ctx_date,
                   dedup_input, dedup_results,
                   error, store_files, handles, ctx, ctx_call,
                   fs, inode, run>>

\* build_transit_db(gtfs_path, date): an existing transit_<date>.db is returned
\* as it is
BuildTransitDb ==
    /\ db' = IF db # None THEN db ELSE build_transit_db(feed, date)
    /\ UNCHANGED <<feed, date, filtered, stop_departures, trip_stop_sequence,
                   dep_cache, trip_cache, dep_cache_other, trip_cache_other,
                   request, last, trails, query, plans, served,
                   trail_plans, ctx_date, dedup_input, dedup_results,
                   error, store_files, handles, ctx, ctx_call,
                   fs, inode, run>>

NextStore == LoadFeedForDate \/ BuildTransitDb

SpecStore == InitStore /\ [][NextStore]_vars

(***************************************************************************)
(* The planner.  Distances are whole metres and durations whole seconds:   *)
(* the walk distances of the model are multiples of 5 m and the trail      *)
(* lengths multiples of 10 m, for which the source's float arithmetic      *)
(* gives exactly these values.  A hiking ratio is the pair                 *)
(* <<hiking seconds, total seconds>>, compared by cross-multiplication.    *)
(***************************************************************************)
\* WALK_SPEED_KMH = 4.5 and NAISMITH_SPEED_KMH = 4.0, in metres per hour
WALK_SPEED_MH == 4500
NAISMITH_SPEED_MH == 4000
NAISMITH_CLIMB_FACTOR == 600
DEFAULT_LATEST_RETURN_HOUR == 18
\* THROUGH_HIKE_MIN_DISTANCE_KM = 3.0 and THROUGH_HIKE_MAX_DISTANCE_KM = 20.0,
\* in metres
THROUGH_HIKE_MIN_DISTANCE_M == 3000
THROUGH_HIKE_MAX_DISTANCE_M == 20000
\* datetime.time(6, 0)
DEFAULT_EARLIEST_DEPARTURE == <<6, 0, 0>>

\* _datetime_to_seconds: hour, minute and second of the datetime; its date is
\* dropped
datetime_to_seconds(dt) == dt.seconds

\* _walk_time_hours(distance_m) * 3600
WalkTimeSecs(distance_m) == (distance_m * 3600) \div WALK_SPEED_MH

\* _estimate_hike_time_hours, in seconds
EstimateHikeTimeSecs(distance_m, elevation_gain_m) ==
    (distance_m * 3600) \div NAISMITH_SPEED_MH
        + (elevation_gain_m * 3600) \div NAISMITH_CLIMB_FACTOR

\* get_deadline on a weekday: the date at DEFAULT_LATEST_RETURN_HOUR
DeadlineSecs(d) == DEFAULT_LATEST_RETURN_HOUR * 3600

Min(a, b) == IF a <= b THEN a ELSE b

Abs(a) == IF a < 0 THEN 0 - a ELSE a

\* hiking_ratio = actual_hiking_hours / total_hours if total_hours > 0 else 0
HikingRatio(actual_hiking_secs, total_secs) ==
    IF total_secs > 0 THEN <<actual_hiking_secs, total_secs>> ELSE <<0, 1>>

RatioGreater(a, b) == a[1] * b[2] > b[1] * a[2]

\* The HikePlan and its HikeSegment; base + timedelta(seconds=...) counts from
\* midnight of the travel date
HikePlan(trail, ap, exit_ap, outbound_legs, return_legs, hike_start_secs, hike_end_secs, actual_hiking_secs, estimated_distance_m) ==
    [trail |-> trail.name,
     access_point |-> ap,
     exit_access_point |-> exit_ap,
     outbound_legs |-> outbound_legs,
     return_legs |-> return_legs,
     hike_segment |-> [hike_start |-> SecondsToDatetime(hike_start_secs),
                       hike_end |-> SecondsToDatetime(hike_end_secs),
                       hiking_secs |-> actual_hiking_secs,
                       estimated_distance_m |-> estimated_distance_m,
                       is_loop |-> trail.is_loop /\ exit_ap = None,
                       is_through_hike |-> exit_ap # None],
     departure_from_origin |-> outbound_legs[1].departure,
     arrival_at_origin |-> return_legs[Len(return_legs)].arrival,
     total_secs |-> DatetimeSecs(return_legs[Len(return_legs)].arrival)
                        - DatetimeSecs(outbound_legs[1].departure),
     hiking_ratio |-> HikingRatio(actual_hiking_secs,
                                  DatetimeSecs(return_legs[Len(return_legs)].arrival)
                                      - DatetimeSecs(outbound_legs[1].departure))]

\* _plan_access_point, the out-and-back branch of the hiking window: the hiker
\* walks as far as half the window allows, at most the whole trail
OutAndBackHikingSecs(trail, window_secs, estimated_time) ==
    IF trail.distance_m = 0 THEN 0 ELSE Min(window_secs, 2 * estimated_time)

OutAndBackDistance(trail, window_secs, estimated_time) ==
    IF trail.distance_m = 0 THEN 0
    ELSE Min((window_secs * trail.distance_m) \div estimated_time, 2 * trail.distance_m)

\* _plan_access_point from "Hiking window" on
PlanAccessPointWindow(trail, ap, return_legs, outbound_legs, hike_start_secs, hike_end_secs, min_hiking_secs, estimated_time) ==
    IF trail.is_loop
    THEN IF hike_end_secs - hike_start_secs < estimated_time THEN None
         ELSE IF estimated_time < min_hiking_secs THEN None
         ELSE HikePlan(trail, ap, None, outbound_legs, return_legs, hike_start_secs,
                       hike_end_secs, estimated_time, trail.distance_m)
    ELSE IF OutAndBackHikingSecs(trail, hike_end_secs - hike_start_secs, estimated_time)
                < min_hiking_secs
         THEN None
         ELSE HikePlan(trail, ap, None, outbound_legs, return_legs, hike_start_secs,
                       hike_end_secs,
                       OutAndBackHikingSecs(trail, hike_end_secs - hike_start_secs,
                                            estimated_time),
                       OutAndBackDistance(trail, hike_end_secs - hike_start_secs,
                                          estimated_time))

\* _plan_access_point once hike_start_secs is known
PlanAccessPointStart(trail, ap, return_legs, outbound_legs, hike_start_secs, hike_end_secs, min_hiking_secs) ==
    IF hike_start_secs >= hike_end_secs THEN None
    ELSE PlanAccessPointWindow(trail, ap, return_legs, outbound_legs, hike_start_secs,
                               hike_end_secs, min_hiking_secs,
                               EstimateHikeTimeSecs(trail.distance_m,
                                                    trail.elevation_gain_m))

\* _plan_access_point once find_outbound has returned
PlanAccessPointOutbound(trail, ap, return_legs, outbound_legs, hike_end_secs, min_hiking_secs) ==
    IF outbound_legs = None THEN None
    ELSE PlanAccessPointStart(trail, ap, return_legs, outbound_legs,
             datetime_to_seconds(outbound_legs[Len(outbound_legs)].arrival)
                 + WalkTimeSecs(ap.walk_distance_m),
             hike_end_secs, min_hiking_secs)

\* _plan_access_point once hike_end_secs is known
PlanAccessPointEnd(trail, ap, origin_stop_ids, earliest_dep_secs, return_legs, hike_end_secs, min_hiking_secs) ==
    IF hike_end_secs <= earliest_dep_secs THEN None
    ELSE PlanAccessPointOutbound(trail, ap, return_legs,
             find_outbound(MemRouter, origin_stop_ids, {ap.stop_id},
                           earliest_dep_secs).legs,
             hike_end_secs, min_hiking_secs)

\* _plan_access_point once find_return has returned
PlanAccessPointReturn(trail, ap, origin_stop_ids, earliest_dep_secs, return_legs, min_hiking_secs) ==
    IF return_legs = None THEN None
    ELSE PlanAccessPointEnd(trail, ap, origin_stop_ids, earliest_dep_secs, return_legs,
             datetime_to_seconds(return_legs[1].departure)
                 - WalkTimeSecs(ap.walk_distance_m),
             min_hiking_secs)

\* _plan_access_point: a HikePlan or None
plan_access_point(trail, ap, origin_stop_ids, earliest_dep_secs, deadline_secs, min_hiking_secs) ==
    PlanAccessPointReturn(trail, ap, origin_stop_ids, earliest_dep_secs,
        find_return(MemRouter, <<ap.stop_id>>, ToSet(origin_stop_ids),
                    deadline_secs).legs,
        min_hiking_secs)

\* _plan_through_hike: the Naismith time of the segment, the trail's elevation
\* gain taken in proportion to the segment
ThroughHikeTimeSecs(trail, segment_m) ==
    EstimateHikeTimeSecs(segment_m,
        IF trail.distance_m > 0
        THEN (trail.elevation_gain_m * segment_m) \div trail.distance_m
        ELSE 0)

\* A variant of PlanThroughHikeWindow without the test against min_hiking_hours
PlanThroughHikeWindowNoMin(trail, entry_ap, exit_ap, segment_m, return_legs, outbound_legs, hike_start_secs, hike_end_secs, min_hiking_secs, estimated_time) ==
    IF hike_end_secs - hike_start_secs < estimated_time THEN None
    ELSE HikePlan(trail, entry_ap, exit_ap, outbound_legs, return_legs, hike_start_secs,
                  hike_end_secs, estimated_time, segment_m)

\* A variant of PlanThroughHikeWindow without the test against the hiking window
PlanThroughHikeWindowNoFit(trail, entry_ap, exit_ap, segment_m, return_legs, outbound_legs, hike_start_secs, hike_end_secs, min_hiking_secs, estimated_time) ==
    IF estimated_time < min_hiking_secs THEN None
    ELSE HikePlan(trail, entry_ap, exit_ap, outbound_legs, return_legs, hike_start_secs,
                  hike_end_secs, estimated_time, segment_m)

\* _plan_through_hike from "Hiking time" on
PlanThroughHikeWindow(trail, entry_ap, exit_ap, segment_m, return_legs, outbound_legs, hike_start_secs, hike_end_secs, min_hiking_secs, estimated_time) ==
    IF hike_end_secs - hike_start_secs < estimated_time THEN None
    ELSE IF estimated_time < min_hiking_secs THEN None
    ELSE HikePlan(trail, entry_ap, exit_ap, outbound_legs, return_legs, hike_start_secs,
                  hike_end_secs, estimated_time, segment_m)

\* _plan_through_hike once hike_start_secs is known
PlanThroughHikeStart(trail, entry_ap, exit_ap, segment_m, return_legs, outbound_legs, hike_start_secs, hike_end_secs, min_hiking_secs) ==
    IF hike_start_secs >= hike_end_secs THEN None
    ELSE PlanThroughHikeWindow(trail, entry_ap, exit_ap, segment_m, return_legs,
                               outbound_legs, hike_start_secs, hike_end_secs,
                               min_hiking_secs, ThroughHikeTimeSecs(trail, segment_m))

\* _plan_through_hike once find_outbound has returned
PlanThroughHikeOutbound(trail, entry_ap, exit_ap, segment_m, return_legs, outbound_legs, hike_end_secs, min_hiking_secs) ==
    IF outbound_legs = None THEN None
    ELSE PlanThroughHikeStart(trail, entry_ap, exit_ap, segment_m, return_legs,
             outbound_legs,
             datetime_to_seconds(outbound_legs[Len(outbound_legs)].arrival)
                 + WalkTimeSecs(entry_ap.walk_distance_m),
             hike_end_secs, min_hiking_secs)

\* _plan_through_hike once hike_end_secs is known
PlanThroughHikeEnd(trail, entry_ap, exit_ap, segment_m, origin_stop_ids, earliest_dep_secs, return_legs, hike_end_secs, min_hiking_secs) ==
    IF hike_end_secs <= earliest_dep_secs THEN None
    ELSE PlanThroughHikeOutbound(trail, entry_ap, exit_ap, segment_m, return_legs,
             find_outbound(MemRouter, origin_stop_ids, {entry_ap.stop_id},
                           earliest_dep_secs).legs,
             hike_end_secs, min_hiking_secs)

\* _plan_through_hike once find_return has returned
PlanThroughHikeReturn(trail, entry_ap, exit_ap, segment_m, origin_stop_ids, earliest_dep_secs, return_legs, min_hiking_secs) ==
    IF return_legs = None THEN None
    ELSE PlanThroughHikeEnd(trail, entry_ap, exit_ap, segment_m, origin_stop_ids,
             earliest_dep_secs, return_legs,
             datetime_to_seconds(return_legs[1].departure)
                 - WalkTimeSecs(exit_ap.walk_distance_m),
             min_hiking_secs)

\* _plan_through_hike: enter at entry_ap, leave at exit_ap
plan_through_hike(trail, entry_ap, exit_ap, segment_m, origin_stop_ids, earliest_dep_secs, deadline_secs, min_hiking_secs) ==
    PlanThroughHikeReturn(trail, entry_ap, exit_ap, segment_m, origin_stop_ids,
        earliest_dep_secs,
        find_return(MemRouter, <<exit_ap.stop_id>>, ToSet(origin_stop_ids),
                    deadline_secs).legs,
        min_hiking_secs)

\* A variant of BetterPlan: a later plan with an equal ratio replaces the best
BetterPlanLastWins(best, plan) ==
    IF plan = None THEN best
    ELSE IF best = None THEN plan
    ELSE IF ~RatioGreater(best.hiking_ratio, plan.hiking_ratio) THEN plan
    ELSE best

\* _plan_single_trail: "if best is None or plan.hiking_ratio > best.hiking_ratio"
BetterPlan(best, plan) ==
    IF plan = None THEN best
    ELSE IF best = None THEN plan
    ELSE IF RatioGreater(plan.hiking_ratio, best.hiking_ratio) THEN plan
    ELSE best

RECURSIVE BestPlan(_, _, _)
\* The best of the candidates i.., in loop order, starting from best
BestPlan(best, candidates, i) ==
    IF i > Len(candidates) THEN best
    ELSE BestPlan(BetterPlan(best, candidates[i]), candidates, i + 1)

OptionalPlan(plan) == IF plan = None THEN <<>> ELSE <<plan>>

\* _plan_single_trail, the loop over trail.access_points
OutAndBackCandidates(trail, origin_stop_ids, earliest_dep_secs, deadline_secs, min_hiking_secs) ==
    [i \in 1..Len(trail.access_points) |->
        plan_access_point(trail, trail.access_points[i], origin_stop_ids,
                          earliest_dep_secs, deadline_secs, min_hiking_secs)]

\* A variant of ThroughSegment: no upper limit on the segment
ThroughSegmentNoMax(trail, entry_ap, exit_ap, segment_m, origin_stop_ids, earliest_dep_secs, deadline_secs, min_hiking_secs) ==
    IF segment_m < THROUGH_HIKE_MIN_DISTANCE_M THEN None
    ELSE plan_through_hike(trail, entry_ap, exit_ap, segment_m, origin_stop_ids,
                           earliest_dep_secs, deadline_secs, min_hiking_secs)

\* _plan_single_trail, one pair of the double loop whose segment is segment_m
ThroughSegment(trail, entry_ap, exit_ap, segment_m, origin_stop_ids, earliest_dep_secs, deadline_secs, min_hiking_secs) ==
    IF segment_m < THROUGH_HIKE_MIN_DISTANCE_M THEN None
    ELSE IF segment_m > THROUGH_HIKE_MAX_DISTANCE_M THEN None
    ELSE plan_through_hike(trail, entry_ap, exit_ap, segment_m, origin_stop_ids,
                           earliest_dep_secs, deadline_secs, min_hiking_secs)

\* _plan_single_trail, the pair (i, j) of the double loop
ThroughCandidate(trail, i, j, origin_stop_ids, earliest_dep_secs, deadline_secs, min_hiking_secs) ==
    IF i = j THEN None
    ELSE ThroughSegment(trail, trail.access_points[i], trail.access_points[j],
             Abs(trail.access_points[j].trail_m_from_start
                     - trail.access_points[i].trail_m_from_start),
             origin_stop_ids, earliest_dep_secs, deadline_secs, min_hiking_secs)

\* _plan_single_trail, the double loop: i outer, j inner
ThroughCandidates(trail, n, origin_stop_ids, earliest_dep_secs, deadline_secs, min_hiking_secs) ==
    [k \in 1..(n * n) |->
        ThroughCandidate(trail, ((k - 1) \div n) + 1, ((k - 1) % n) + 1, origin_stop_ids,
                         earliest_dep_secs, deadline_secs, min_hiking_secs)]

\* _plan_single_trail: the best out-and-back (or loop) plan, then the best
\* through-hike plan
plan_single_trail(trail, origin_stop_ids, earliest_dep_secs, deadline_secs, min_hiking_secs) ==
    OptionalPlan(BestPlan(None,
        OutAndBackCandidates(trail, origin_stop_ids, earliest_dep_secs, deadline_secs,
                             min_hiking_secs), 1))
    \o (IF ~trail.is_loop /\ Len(trail.access_points) >= 2
        THEN OptionalPlan(BestPlan(None,
                 ThroughCandidates(trail, Len(trail.access_points), origin_stop_ids,
                                   earliest_dep_secs, deadline_secs, min_hiking_secs),
                 1))
        ELSE <<>>)

RECURSIVE TrailPlans(_, _, _, _, _, _)
\* plan_hikes_for_origin, the loop over ctx.trails from trail i on
TrailPlans(ctx_trails, i, origin_stop_ids, earliest_dep_secs, deadline_secs, min_hiking_secs) ==
    IF i > Len(ctx_trails) THEN <<>>
    ELSE plan_single_trail(ctx_trails[i], origin_stop_ids, earliest_dep_secs,
                           deadline_secs, min_hiking_secs)
         \o TrailPlans(ctx_trails, i + 1, origin_stop_ids, earliest_dep_secs,
                       deadline_secs, min_hiking_secs)

RECURSIVE InsertByRatio(_, _)
\* plans.sort(key=hiking_ratio, reverse=True): descending and stable
InsertByRatio(sorted, x) ==
    IF sorted = <<>> THEN <<x>>
    ELSE IF ~RatioGreater(x.hiking_ratio, sorted[Len(sorted)].hiking_ratio)
    THEN Append(sorted, x)
    ELSE Append(InsertByRatio(SubSeq(sorted, 1, Len(sorted) - 1), x), sorted[Len(sorted)])

RECURSIVE SortByRatio(_)
SortByRatio(s) ==
    IF s = <<>> THEN <<>>
    ELSE InsertByRatio(SortByRatio(SubSeq(s, 1, Len(s) - 1)), s[Len(s)])

\* plans[: max_results], a slice: a negative stop counts from the end of the list
Truncate(s, n) ==
    IF n >= 0 THEN SubSeq(s, 1, Min(n, Len(s))) ELSE SubSeq(s, 1, Len(s) + n)

\* query.earliest_departure or datetime.time(6, 0)
EarliestDepSecs(q) ==
    TimeToSeconds(IF q.earliest_departure = None THEN DEFAULT_EARLIEST_DEPARTURE
                  ELSE q.earliest_departure)

\* plan_hikes_for_origin; the origin stops are those find_origin_stops found
plan_hikes_for_origin(q, ctx_trails, deadline_secs) ==
    IF q.origin_stop_ids = <<>> THEN <<>>
    ELSE Truncate(SortByRatio(TrailPlans(ctx_trails, 1, q.origin_stop_ids,
                                         EarliestDepSecs(q), deadline_secs,
                                         q.min_hiking_secs)),
                  q.max_results)

(***************************************************************************)
(* The trails, schedules and queries of the planner model.  Stop C is the  *)
(* access point of every trail; the trail "ridge" is also reached from     *)
(* stop D, 5 km further along.  Trip n1 reaches C after midnight; trip z1  *)
(* has the same time at both of its stops.                                 *)
(***************************************************************************)
WalkDistances == {0, 450}

AccessPoint(stop_id, walk_distance_m, trail_m_from_start) ==
    [stop_id |-> stop_id, walk_distance_m |-> walk_distance_m,
     trail_m_from_start |-> trail_m_from_start]

\* The colours of the model's trails
TrailColors(name) == IF name \in {"wadi", "circuit"} THEN <<"red">> ELSE <<"blue", "black">>

Trail(name, distance_m, elevation_gain_m, is_loop, access_points) ==
    [name |-> name, distance_m |-> distance_m, elevation_gain_m |-> elevation_gain_m,
     is_loop |-> is_loop, access_points |-> access_points,
     colors |-> TrailColors(name), difficulty |-> "easy"]

Wadi(w) == Trail("wadi", 8000, 300, FALSE, <<AccessPoint("C", w, 0)>>)

Ridge(w) == Trail("ridge", 10000, 0, FALSE, <<AccessPoint("D", w, 0), AccessPoint("C", w, 5000)>>)

Circuit(w) == Trail("circuit", 6000, 120, TRUE, <<AccessPoint("C", w, 0)>>)

\* A loop with two access points, 4 km apart
Ring(w) == Trail("ring", 6000, 120, TRUE, <<AccessPoint("D", w, 0), AccessPoint("C", w, 4000)>>)

\* A climbing trail with two access points, 4 km apart
Crest(w) == Trail("crest", 12000, 360, FALSE, <<AccessPoint("D", w, 0), AccessPoint("C", w, 4000)>>)

\* A long trail whose two access points are span metres apart
Spur(w, span) == Trail("spur", 25000, 0, FALSE, <<AccessPoint("D", w, 0), AccessPoint("C", w, span)>>)

\* Spans around THROUGH_HIKE_MIN_DISTANCE_M and THROUGH_HIKE_MAX_DISTANCE_M
Spans ==
    {THROUGH_HIKE_MIN_DISTANCE_M - 10, THROUGH_HIKE_MIN_DISTANCE_M,
     THROUGH_HIKE_MAX_DISTANCE_M, THROUGH_HIKE_MAX_DISTANCE_M + 10}

PlanTrails ==
    UNION {{<<Wadi(w)>>, <<Ridge(w)>>, <<Circuit(w)>>, <<Ring(w)>>, <<Crest(w)>>,
            <<Wadi(w), Ridge(w), Circuit(w)>>} \cup {<<Spur(w, x)>> : x \in Spans} :
              w \in WalkDistances}

PlanPool ==
    << TripRows("o1", << <<"A", <<7, 0, 0>>, <<7, 0, 0>> >>,
                         <<"B", <<7, 30, 0>>, <<7, 30, 0>> >>,
                         <<"C", <<8, 0, 0>>, <<8, 0, 0>> >> >>),
       TripRows("n1", << <<"A", <<23, 30, 0>>, <<23, 30, 0>> >>,
                         <<"C", <<24, 10, 0>>, <<24, 10, 0>> >> >>),
       TripRows("r1", << <<"C", <<15, 0, 0>>, <<15, 0, 0>> >>,
                         <<"B", <<15, 30, 0>>, <<15, 30, 0>> >>,
                         <<"A", <<16, 0, 0>>, <<16, 0, 0>> >> >>),
       TripRows("o8", << <<"A", <<7, 0, 0>>, <<7, 0, 0>> >>,
                         <<"D", <<7, 50, 0>>, <<7, 50, 0>> >>,
                         <<"C", <<8, 0, 0>>, <<8, 0, 0>> >> >>),
       TripRows("r6", << <<"C", <<15, 20, 0>>, <<15, 20, 0>> >>,
                         <<"D", <<15, 30, 0>>, <<15, 30, 0>> >>,
                         <<"A", <<16, 30, 0>>, <<16, 30, 0>> >> >>),
       TripRows("r7", << <<"C", <<8, 5, 0>>, <<8, 5, 0>> >>,
                         <<"A", <<9, 0, 0>>, <<9, 0, 0>> >> >>),
       TripRows("z1", << <<"A", <<6, 30, 0>>, <<6, 30, 0>> >>,
                         <<"C", <<6, 30, 0>>, <<6, 30, 0>> >> >>) >>

PlanFeeds == {EverydayFeed(PoolRows(PlanPool, S, 1)) : S \in TripChoices(PlanPool, MaxTrips)}

\* query.min_hiking_hours: 0.5, 0.75 and 1.0 (the default)
MinHikingSecs == {1800, 2700, 3600}

Queries ==
    {[origin_stop_ids |-> o, earliest_departure |-> e, min_hiking_secs |-> h,
      max_results |-> n] :
        o \in {<<>>, <<"A">>}, e \in {None, <<7, 5, 0>>}, h \in MinHikingSecs,
        n \in {-1, 1, 20}}

\* prepare_data has returned the context; a query is about to be planned
InitPlan ==
    /\ \E f \in PlanFeeds : Prepared(f, Tuesday)
    /\ dep_cache_other = 0
    /\ trip_cache_other = 0
    /\ request = NoRequest
    /\ trails \in PlanTrails
    /\ query \in Queries
    /\ plans = <<>>
    /\ served = NoQuery
    /\ trail_plans = <<>>
    /\ IndexIdle
    /\ ContextIdle
    /\ BuildIdle

\* plan_hikes_for_origin, what each turn of the loop over ctx.trails extends
\* plans with
TrailPlansOf(q, ctx_trails, deadline_secs) ==
    IF q.origin_stop_ids = <<>> THEN <<>>
    ELSE [k \in 1..Len(ctx_trails) |->
             plan_single_trail(ctx_trails[k], q.origin_stop_ids, EarliestDepSecs(q),
                               deadline_secs, q.min_hiking_secs)]

\* plan_hikes_for_origin(query, ctx)
PlanHikesForOrigin ==
    /\ query # NoQuery
    /\ plans' = plan_hikes_for_origin(query, trails, DeadlineSecs(date))
    /\ trail_plans' = TrailPlansOf(query, trails, DeadlineSecs(date))
    /\ served' = query
    /\ query' = NoQuery
    /\ UNCHANGED <<feed, date, filtered, db, stop_departures, trip_stop_sequence,
                   dep_cache, trip_cache, dep_cache_other, trip_cache_other,
                   request, last, trails, ctx_date, dedup_input, dedup_results,
                   error, store_files, handles, ctx, ctx_call,
                   fs, inode, run>>

NextPlan == PlanHikesForOrigin

SpecPlan == InitPlan /\ [][NextPlan]_vars

(***************************************************************************)
(* The spatial join: _deduplicate_access_points.  Positions along the      *)
(* trail are in metres (trail_km_from_start is rounded to 10 m).           *)
(***************************************************************************)
DEDUP_TRAIL_DISTANCE_M == 200

MaxPoints == 3

RECURSIVE InsertByKm(_, _)
\* sorted(access_points, key=trail_km_from_start): ascending and stable
InsertByKm(sorted, ap) ==
    IF sorted = <<>> THEN <<ap>>
    ELSE IF sorted[Len(sorted)].trail_m_from_start <= ap.trail_m_from_start
    THEN Append(sorted, ap)
    ELSE Append(InsertByKm(SubSeq(sorted, 1, Len(sorted) - 1), ap), sorted[Len(sorted)])

\* A variant of SortByKm: the list as it came
SortByKmUnsorted(s) == s

RECURSIVE SortByKm(_)
SortByKm(s) ==
    IF s = <<>> THEN <<>>
    ELSE InsertByKm(SortByKm(SubSeq(s, 1, Len(s) - 1)), s[Len(s)])

\* A variant of DedupStep: every point is kept
DedupStepKeepAll(kept, last_kept, ap, min_trail_distance_m) == Append(kept, ap)

\* _deduplicate_access_points, one turn of the loop; last_kept is kept[-1]
DedupStep(kept, last_kept, ap, min_trail_distance_m) ==
    IF Abs(ap.trail_m_from_start - last_kept.trail_m_from_start) < min_trail_distance_m
    THEN IF ap.walk_distance_m < last_kept.walk_distance_m
         THEN [kept EXCEPT ![Len(kept)] = ap]
         ELSE kept
    ELSE Append(kept, ap)

RECURSIVE DedupLoop(_, _, _, _)
\* _deduplicate_access_points: "for ap in sorted_pts[1:]"
DedupLoop(sorted_pts, i, kept, min_trail_distance_m) ==
    IF i > Len(sorted_pts) THEN kept
    ELSE DedupLoop(sorted_pts, i + 1,
                   DedupStep(kept, kept[Len(kept)], sorted_pts[i], min_trail_distance_m),
                   min_trail_distance_m)

\* _deduplicate_access_points from "kept = [sorted_pts[0]]" on
DedupSorted(sorted_pts, min_trail_distance_m) ==
    DedupLoop(sorted_pts, 2, <<sorted_pts[1]>>, min_trail_distance_m)

\* _deduplicate_access_points(access_points, min_trail_distance_m)
deduplicate_access_points(aps, min_trail_distance_m) ==
    IF Len(aps) <= 1 THEN aps
    ELSE DedupSorted(SortByKm(aps), min_trail_distance_m)

\* Candidate stops of one trail: positions 10, 180, 190, 200 m and more apart,
\* three walks
DedupStops == <<"A", "B", "C", "D", "E">>
DedupPositions == {0, 190, 200, 380, 390}
DedupWalks == {25, 50, 100}
DedupPoints == {<<w, m>> : w \in DedupWalks, m \in DedupPositions}

AccessPointList(f) == [i \in DOMAIN f |-> AccessPoint(DedupStops[i], f[i][1], f[i][2])]

AccessPointLists ==
    {AccessPointList(f) : f \in UNION {[1..n -> DedupPoints] : n \in 0..MaxPoints}}

\* build_trail_access_points has collected the access points of one trail
InitDedup ==
    /\ feed = None
    /\ date = None
    /\ filtered = None
    /\ db = None
    /\ stop_departures = EmptyDict
    /\ trip_stop_sequence = EmptyDict
    /\ dep_cache = EmptyDict
    /\ trip_cache = EmptyDict
    /\ dep_cache_other = 0
    /\ trip_cache_other = 0
    /\ request = NoRequest
    /\ last = NoCall
    /\ PlannerIdle
    /\ ctx_date = None
    /\ dedup_input \in AccessPointLists
    /\ dedup_results = <<>>
    /\ ContextIdle
    /\ BuildIdle

\* _deduplicate_access_points(access_points, DEDUP_TRAIL_DISTANCE_M)
DeduplicateAccessPoints ==
    /\ dedup_results = <<>>
    /\ dedup_results' = <<deduplicate_access_points(dedup_input, DEDUP_TRAIL_DISTANCE_M)>>
    /\ UNCHANGED <<feed, date, filtered, db, stop_departures, trip_stop_sequence,
                   dep_cache, trip_cache, dep_cache_other, trip_cache_other,
                   request, last, trails, query, plans, served, trail_plans,
                   ctx_date, dedup_input,
                   error, store_files, handles, ctx, ctx_call,
                   fs, inode, run>>

\* _deduplicate_access_points called on the list it returned
DeduplicateAgain ==
    /\ Len(dedup_results) = 1
    /\ dedup_results' = Append(dedup_results,
                               deduplicate_access_points(dedup_results[1],
                                                         DEDUP_TRAIL_DISTANCE_M))
    /\ UNCHANGED <<feed, date, filtered, db, stop_departures, trip_stop_sequence,
                   dep_cache, trip_cache, dep_cache_other, trip_cache_other,
                   request, last, trails, query, plans, served, trail_plans,
                   ctx_date, dedup_input,
                   error, store_files, handles, ctx, ctx_call,
                   fs, inode, run>>

NextDedup == DeduplicateAccessPoints \/ DeduplicateAgain

SpecDedup == InitDedup /\ [][NextDedup]_vars

(***************************************************************************)
(* Preparing a context and serving queries on it: prepare_data,            *)
(* prepare_data_from_index, plan_hikes and the web service's plan          *)
(* endpoint, which loads one context per date and reuses it.               *)
(***************************************************************************)
MAX_WALK_TO_TRAIL_M == 1000
MAX_TRAIL_DISTANCE_M == 30000
\* scripts/refresh_data.py: build_trail_access_points(..., max_distance_m=1000)
INDEX_MAX_DISTANCE_M == 1000

\* str.lower() on the strings of the model
Lower(c) == IF c = "Red" THEN "red" ELSE IF c = "Easy" THEN "easy" ELSE c

LowerSet(cs) == {Lower(cs[i]) : i \in 1..Len(cs)}

\* _filter_trails: the trail passes every filter the query sets.  An optional
\* number or string is None or the one-element tuple of its value; colors is
\* None, which is the empty list here, or the list of colours
KeepsTrail(t, q) ==
    /\ q.colors # <<>> => LowerSet(q.colors) \cap LowerSet(t.colors) # {}
    /\ q.min_distance_m # None => t.distance_m >= q.min_distance_m[1]
    /\ q.max_distance_m # None => t.distance_m <= q.max_distance_m[1]
    /\ q.loop_only => t.is_loop
    /\ q.linear_only => ~t.is_loop
    /\ q.max_elevation_gain_m # None => t.elevation_gain_m <= q.max_elevation_gain_m[1]
    /\ q.difficulty # None => Lower(t.difficulty) = Lower(q.difficulty[1])

RECURSIVE filter_trails(_, _)
\* _filter_trails(trails, query)
filter_trails(ts, q) ==
    IF ts = <<>> THEN <<>>
    ELSE IF KeepsTrail(Head(ts), q) THEN <<Head(ts)>> \o filter_trails(Tail(ts), q)
    ELSE filter_trails(Tail(ts), q)

RECURSIVE WithinWalk(_, _)
\* build_trail_access_points: "if walk_dist_m > max_distance_m: continue"
WithinWalk(candidates, max_distance_m) ==
    IF candidates = <<>> THEN <<>>
    ELSE IF Head(candidates).walk_distance_m > max_distance_m
    THEN WithinWalk(Tail(candidates), max_distance_m)
    ELSE <<Head(candidates)>> \o WithinWalk(Tail(candidates), max_distance_m)

\* build_trail_access_points, one trail: the access points it gets
JoinAccessPoints(candidates, max_distance_m) ==
    SortByKm(deduplicate_access_points(WithinWalk(candidates, max_distance_m),
                                       DEDUP_TRAIL_DISTANCE_M))

\* build_trail_access_points: "if access_points:"
JoinedTrail(t, aps) == IF aps = <<>> THEN <<>> ELSE <<[t EXCEPT !.access_points = aps]>>

RECURSIVE build_trail_access_points(_, _)
\* build_trail_access_points(trails, stops, max_distance_m); a trail comes with
\* its candidate stops, each with its walk and its position along the trail
build_trail_access_points(ts, max_distance_m) ==
    IF ts = <<>> THEN <<>>
    ELSE JoinedTrail(Head(ts), JoinAccessPoints(Head(ts).access_points, max_distance_m))
         \o build_trail_access_points(Tail(ts), max_distance_m)

RECURSIVE WithoutMegaTrails(_)
\* "trails = [t for t in trails if t.distance_km <= MAX_TRAIL_DISTANCE_KM]"
WithoutMegaTrails(ts) ==
    IF ts = <<>> THEN <<>>
    ELSE IF Head(ts).distance_m <= MAX_TRAIL_DISTANCE_M
    THEN <<Head(ts)>> \o WithoutMegaTrails(Tail(ts))
    ELSE WithoutMegaTrails(Tail(ts))

\* prepare_data(query).trails; osm is what fetch_hiking_trails returned
prepare_data(q, osm) ==
    build_trail_access_points(filter_trails(WithoutMegaTrails(osm), q),
                              q.max_walk_to_trail_m)

\* load_trail_index(): the index scripts/refresh_data.py wrote
load_trail_index(osm) == build_trail_access_points(WithoutMegaTrails(osm), INDEX_MAX_DISTANCE_M)

\* prepare_data_from_index(query).trails
prepare_data_from_index(q, osm) == filter_trails(load_trail_index(osm), q)

\* HikeQuery with the fields the planner reads
HikeQuery(origin_stop_ids, max_walk_to_trail_m, colors, min_distance_m, max_distance_m, loop_only, linear_only, max_elevation_gain_m) ==
    [origin_stop_ids |-> origin_stop_ids, earliest_departure |-> None,
     min_hiking_secs |-> 3600, max_results |-> 20,
     max_walk_to_trail_m |-> max_walk_to_trail_m, colors |-> colors,
     min_distance_m |-> min_distance_m, max_distance_m |-> max_distance_m,
     loop_only |-> loop_only, linear_only |-> linear_only,
     max_elevation_gain_m |-> max_elevation_gain_m, difficulty |-> None]

\* web/app.py _get_context: HikeQuery(origin="rehovot", date=date)
ContextQuery == HikeQuery(<<"A">>, MAX_WALK_TO_TRAIL_M, None, None, None, FALSE, FALSE, None)

\* web/app.py _get_context(date) when no context of that date is loaded
get_context(osm, has_index) ==
    IF has_index THEN prepare_data_from_index(ContextQuery, osm)
    ELSE prepare_data(ContextQuery, osm)

\* What fetch_hiking_trails returns: stop B is too far from "wadi", the stops of
\* "ridge" come in no order, "shvil" is a mega-trail
OsmTrails ==
    {<<Trail("wadi", 8000, 300, FALSE, <<AccessPoint("B", 1200, 4000), AccessPoint("C", w, 0)>>),
       Trail("ridge", 10000, 0, FALSE, <<AccessPoint("C", w, 5000), AccessPoint("D", w, 0)>>),
       Circuit(w),
       Trail("shvil", 40000, 900, FALSE, <<AccessPoint("C", w, 0)>>)>> : w \in WalkDistances}

WebPool == <<PlanPool[1], PlanPool[3], PlanPool[4], PlanPool[5]>>

WebFeeds == {EverydayFeed(PoolRows(WebPool, S, 1)) : S \in {{1, 2}, {1, 2, 3, 4}}}

\* The queries of the web service's PlanRequest and of the command line
FilterQueries ==
    {HikeQuery(<<"A">>, mw, c, None, x[1], lo[1], lo[2], x[2]) :
        mw \in {200, MAX_WALK_TO_TRAIL_M}, c \in {None, <<"Red">>},
        lo \in {<<FALSE, FALSE>>, <<TRUE, FALSE>>, <<FALSE, TRUE>>},
        x \in {<<None, None>>, << <<7000>>, None>>, <<None, <<200>> >>}}
    \cup {HikeQuery(<<"A">>, MAX_WALK_TO_TRAIL_M, c, None, None, TRUE, TRUE, None) :
             c \in {None, <<"Red">>}}

\* The feed is on disk; no context is loaded
InitWeb ==
    /\ \E f \in WebFeeds : Prepared(f, Tuesday)
    /\ dep_cache_other = 0
    /\ trip_cache_other = 0
    /\ request = NoRequest
    /\ PlannerIdle
    /\ IndexIdle
    /\ ContextIdle
    /\ BuildIdle

\* The planner has been called with q on the context ctx_trails
Planned(q, ctx_trails) ==
    /\ trails' = ctx_trails
    /\ plans' = plan_hikes_for_origin(q, ctx_trails, DeadlineSecs(date))
    /\ trail_plans' = TrailPlansOf(q, ctx_trails, DeadlineSecs(date))
    /\ served' = q
    /\ error' = None
    /\ UNCHANGED <<feed, date, filtered, db, stop_departures, trip_stop_sequence,
                   dep_cache, trip_cache, dep_cache_other, trip_cache_other,
                   request, last, query, dedup_input, dedup_results,
                   store_files, handles, ctx, ctx_call, fs, inode, run>>

\* web/app.py plan(req), one origin: the context of the date is loaded or
\* reused, then plan_hikes_for_origin(query, ctx)
WebPlan ==
    \E q \in FilterQueries :
        /\ ctx_date' = date
        /\ IF ctx_date = date
           THEN Planned(q, trails)
           ELSE \E osm \in OsmTrails, has_index \in BOOLEAN :
                   Planned(q, get_context(osm, has_index))

\* plan_hikes(query) in a process of its own: prepare_data(query), then
\* plan_hikes_for_origin(query, ctx)
PlanHikes ==
    \E q \in FilterQueries, osm \in OsmTrails :
        /\ ctx_date = None
        /\ UNCHANGED ctx_date
        /\ Planned(q, prepare_data(q, osm))

\* src/cli.py plan, one origin, in a process of its own: --loop-only together
\* with --linear-only ends the command with an error before anything is loaded;
\* otherwise prepare_data(base_query), then plan_hikes_for_origin(query, ctx)
CliPlan ==
    \E q \in FilterQueries, osm \in OsmTrails :
        /\ ctx_date = None
        /\ served = NoQuery
        /\ IF q.loop_only /\ q.linear_only
           THEN /\ error' = <<"InvalidQuery">>
                /\ UNCHANGED <<feed, date, filtered, db, stop_departures,
                               trip_stop_sequence, dep_cache, trip_cache,
                               dep_cache_other, trip_cache_other, request, last,
                               trails, query, plans, served, trail_plans, ctx_date,
                               dedup_input, dedup_results, store_files, handles, ctx,
                               ctx_call, fs, inode, run>>
           ELSE /\ UNCHANGED ctx_date
                /\ Planned(q, prepare_data(q, osm))

NextWeb == WebPlan \/ PlanHikes \/ CliPlan

SpecWeb == InitWeb /\ [][NextWeb]_vars

(***************************************************************************)
(* build_transit_db step by step.  GTFS_DIR holds the two paths            *)
(* transit_<date>.db ("final") and transit_<date>.db.tmp ("tmp"); fs maps  *)
(* a path to the file (inode) it names, 0 when the path does not exist.    *)
(* The file a run creates is numbered by the run; inode[p] is what has     *)
(* been written to it: [tables, trips, stop_times, indexes], or None       *)
(* before it is created.  run[p] is [pc, conn, result]: the position of    *)
(* run p, the file its connection has open (0 for none) and how it ended   *)
(* (<<"db_path">>, <<error name>>, or None while it runs).                 *)
(***************************************************************************)
STORE_INDEXES == {"idx_st_stop_dep", "idx_st_trip_seq"}

NoFile == 0

NewRun == [pc |-> "start", conn |-> NoFile, result |-> None]

\* A file that sqlite3.connect has just created
EmptyFile == [tables |-> FALSE, trips |-> <<>>, stop_times |-> <<>>, indexes |-> {}]

\* A variant of Indexed: only the first CREATE INDEX runs
IndexedOnce(c) == [c EXCEPT !.indexes = {"idx_st_stop_dep"}]

\* 7. Create indices: CREATE INDEX idx_st_stop_dep ...; CREATE INDEX idx_st_trip_seq ...
Indexed(c) == [c EXCEPT !.indexes = STORE_INDEXES]

\* Run p moves to position pc
Moved(p, pc) == run' = [run EXCEPT ![p].pc = pc]

\* Run p ends: it returns db_path or raises
Ended(p, pc, result) == run' = [run EXCEPT ![p].pc = pc, ![p].result = result]

BuildRest ==
    UNCHANGED <<feed, date, filtered, db, stop_departures, trip_stop_sequence,
                dep_cache, trip_cache, dep_cache_other, trip_cache_other, request,
                last, trails, query, plans, served, trail_plans, ctx_date,
                dedup_input, dedup_results, error, store_files, handles, ctx,
                ctx_call>>

\* if db_path.exists(): return db_path
CheckStoreOf(p) ==
    /\ run[p].pc = "start"
    /\ IF fs.final # NoFile THEN Ended(p, "done", <<"db_path">>)
       ELSE Moved(p, "check_tmp")
    /\ UNCHANGED <<fs, inode>>
    /\ BuildRest

\* if tmp_path.exists():
CheckTmpOf(p) ==
    /\ run[p].pc = "check_tmp"
    /\ Moved(p, IF fs.tmp # NoFile THEN "unlink" ELSE "connect")
    /\ UNCHANGED <<fs, inode>>
    /\ BuildRest

\* tmp_path.unlink(): FileNotFoundError when the path is gone by now
UnlinkTmpOf(p) ==
    /\ run[p].pc = "unlink"
    /\ IF fs.tmp = NoFile
       THEN Ended(p, "failed", <<"FileNotFoundError">>) /\ UNCHANGED fs
       ELSE Moved(p, "connect") /\ fs' = [fs EXCEPT !.tmp = NoFile]
    /\ UNCHANGED inode
    /\ BuildRest

\* conn = sqlite3.connect(str(tmp_path)) and the PRAGMAs: the file at tmp_path
\* is opened, and created when the path does not exist
ConnectOf(p) ==
    /\ run[p].pc = "connect"
    /\ IF fs.tmp = NoFile
       THEN /\ fs' = [fs EXCEPT !.tmp = p]
            /\ inode' = [inode EXCEPT ![p] = EmptyFile]
            /\ run' = [run EXCEPT ![p].pc = "create", ![p].conn = p]
       ELSE /\ run' = [run EXCEPT ![p].pc = "create", ![p].conn = fs.tmp]
            /\ UNCHANGED <<fs, inode>>
    /\ BuildRest

\* conn.executescript("CREATE TABLE stops ...; ..."): OperationalError when the
\* file already has the tables
CreateTablesOf(p) ==
    /\ run[p].pc = "create"
    /\ IF inode[run[p].conn].tables
       THEN Ended(p, "failed", <<"OperationalError">>) /\ UNCHANGED inode
       ELSE /\ Moved(p, "trips")
            /\ inode' = [inode EXCEPT ![run[p].conn].tables = TRUE]
    /\ UNCHANGED fs
    /\ BuildRest

\* Steps 1 to 4: the active services, then the rows of the trips table
InsertTripsOf(p) ==
    /\ run[p].pc = "trips"
    /\ Moved(p, "stop_times")
    /\ inode' = [inode EXCEPT ![run[p].conn].trips = build_transit_db(feed, date).trips]
    /\ UNCHANGED fs
    /\ BuildRest

\* Step 6: the stop_times rows of the active trips
InsertStopTimesOf(p) ==
    /\ run[p].pc = "stop_times"
    /\ Moved(p, "index")
    /\ inode' = [inode EXCEPT ![run[p].conn].stop_times =
                                  build_transit_db(feed, date).stop_times]
    /\ UNCHANGED fs
    /\ BuildRest

\* Step 7, conn.commit() and conn.close()
CreateIndexesOf(p) ==
    /\ run[p].pc = "index"
    /\ run' = [run EXCEPT ![p].pc = "rename", ![p].conn = NoFile]
    /\ inode' = [inode EXCEPT ![run[p].conn] = Indexed(@)]
    /\ UNCHANGED fs
    /\ BuildRest

\* tmp_path.rename(db_path); return db_path: the file tmp_path names now, whoever
\* created it, replaces what db_path names; FileNotFoundError when tmp_path is gone
RenameOf(p) ==
    /\ run[p].pc = "rename"
    /\ IF fs.tmp = NoFile
       THEN Ended(p, "failed", <<"FileNotFoundError">>) /\ UNCHANGED fs
       ELSE Ended(p, "done", <<"db_path">>) /\ fs' = [final |-> fs.tmp, tmp |-> NoFile]
    /\ UNCHANGED inode
    /\ BuildRest

\* The run is ended from outside between two steps (an I/O error, a bad zip, a
\* kill): nothing is cleaned up
FailOf(p) ==
    /\ run[p].pc \notin {"start", "done", "failed"}
    /\ Ended(p, "failed", <<"OSError">>)
    /\ UNCHANGED <<fs, inode>>
    /\ BuildRest

\* SQLite on a file that was unlinked or renamed under the connection, its -wal
\* and -shm files shared by path with the other run's: the next statement may
\* raise OperationalError (disk I/O error)
IoErrorOf(p) ==
    /\ run[p].pc \in {"create", "trips", "stop_times", "index"}
    /\ run[p].conn # fs.tmp
    /\ Ended(p, "failed", <<"OperationalError">>)
    /\ UNCHANGED <<fs, inode>>
    /\ BuildRest

\* build_transit_db is called again once the earlier call has ended
RestartOf(p) ==
    /\ run[p].pc \in {"done", "failed"}
    /\ run' = [run EXCEPT ![p] = NewRun]
    /\ UNCHANGED <<fs, inode>>
    /\ BuildRest

CheckStore == \E p \in DOMAIN run : CheckStoreOf(p)
CheckTmp == \E p \in DOMAIN run : CheckTmpOf(p)
UnlinkTmp == \E p \in DOMAIN run : UnlinkTmpOf(p)
Connect == \E p \in DOMAIN run : ConnectOf(p)
CreateTables == \E p \in DOMAIN run : CreateTablesOf(p)
InsertTrips == \E p \in DOMAIN run : InsertTripsOf(p)
InsertStopTimes == \E p \in DOMAIN run : InsertStopTimesOf(p)
CreateIndexes == \E p \in DOMAIN run : CreateIndexesOf(p)
Rename == \E p \in DOMAIN run : RenameOf(p)
Fail == \E p \in DOMAIN run : FailOf(p)
IoError == \E p \in DOMAIN run : IoErrorOf(p)
Restart == \E p \in DOMAIN run : RestartOf(p)

\* The feed is on disk, GTFS_DIR holds no store; the runs in procs are about to
\* start
InitBuildOf(procs) ==
    /\ feed \in StoreFeeds
    /\ date \in StoreDates
    /\ filtered = None
    /\ db = None
    /\ stop_departures = EmptyDict
    /\ trip_stop_sequence = EmptyDict
    /\ dep_cache = EmptyDict
    /\ trip_cache = EmptyDict
    /\ dep_cache_other = 0
    /\ trip_cache_other = 0
    /\ request = NoRequest
    /\ last = NoCall
    /\ PlannerIdle
    /\ IndexIdle
    /\ ContextIdle
    /\ fs = [final |-> NoFile, tmp |-> NoFile]
    /\ inode = [p \in procs |-> None]
    /\ run = [p \in procs |-> NewRun]

\* One process calls build_transit_db again and again; a call may fail part-way
InitBuild == InitBuildOf({1})

NextBuild ==
    \/ CheckStore \/ CheckTmp \/ UnlinkTmp \/ Connect \/ CreateTables
    \/ InsertTrips \/ InsertStopTimes \/ CreateIndexes \/ Rename
    \/ Fail \/ Restart

SpecBuild == InitBuild /\ [][NextBuild]_vars

\* Two processes call build_transit_db for the same date and feed, once each
InitRace == InitBuildOf({1, 2})

NextRace ==
    \/ CheckStore \/ CheckTmp \/ UnlinkTmp \/ Connect \/ CreateTables
    \/ InsertTrips \/ InsertStopTimes \/ CreateIndexes \/ Rename
    \/ IoError

SpecRace == InitRace /\ [][NextRace]_vars

(***************************************************************************)
(* The shared context of the web service.  A PlannerContext is             *)
(* [date, deadline_secs, db_path]: the date its router and deadline were   *)
(* made for and the store file its TransitRouterDB has open (<<ymd>>), or  *)
(* None for the in-memory router.  A step that can raise returns           *)
(* [raised |-> <<name>> or None, ...].                                     *)
(***************************************************************************)
Saturday == [ymd |-> 20260207, day_name |-> "saturday"]

ContextDates == {Tuesday, Wednesday, Saturday}

\* get_deadline(date, margin): ValueError on a Saturday, 18:00 on a weekday
get_deadline(d) ==
    IF d.day_name = "saturday"
    THEN [raised |-> <<"ValueError">>, deadline_secs |-> 0]
    ELSE [raised |-> None, deadline_secs |-> DeadlineSecs(d)]

\* prepare_data_from_index(query), low_memory: build_transit_db writes
\* transit_<date>.db unless it exists, TransitRouterDB opens it, the trails are
\* loaded, then get_deadline
PrepareFromIndex(d, files, open) ==
    LET deadline == get_deadline(d)
    IN [raised |-> deadline.raised,
        context |-> IF deadline.raised # None THEN None
                    ELSE [date |-> d, deadline_secs |-> deadline.deadline_secs,
                          db_path |-> <<d.ymd>>],
        store_files |-> files \cup {d.ymd},
        opened |-> open \cup {d.ymd}]

\* prepare_data(query): the feed is loaded into memory, then get_deadline
PrepareData(d, files, open) ==
    LET deadline == get_deadline(d)
    IN [raised |-> deadline.raised,
        context |-> IF deadline.raised # None THEN None
                    ELSE [date |-> d, deadline_secs |-> deadline.deadline_secs,
                          db_path |-> None],
        store_files |-> files,
        opened |-> open]

\* A variant of UsesCached: the cached date is not compared
UsesCachedAnyDate(c, c_date, d) == c # None

\* if _ctx is not None and _ctx_date == date
UsesCached(c, c_date, d) == c # None /\ c_date = d

\* The connections still open once the contexts of garbage are no longer
\* referenced: the program closes none, the runtime closes a connection when it
\* finalises its router (finalized)
StillOpen(open, garbage, kept, finalized) ==
    IF finalized THEN open \ (garbage \ kept) ELSE open

DbPathSet(c) == IF c = None \/ c.db_path = None THEN {} ELSE {c.db_path[1]}

\* The service starts without a context; store files of earlier runs may exist
InitCtx ==
    /\ feed = None
    /\ date = None
    /\ filtered = None
    /\ db = None
    /\ stop_departures = EmptyDict
    /\ trip_stop_sequence = EmptyDict
    /\ dep_cache = EmptyDict
    /\ trip_cache = EmptyDict
    /\ dep_cache_other = 0
    /\ trip_cache_other = 0
    /\ request = NoRequest
    /\ last = NoCall
    /\ PlannerIdle
    /\ IndexIdle
    /\ error = None
    /\ store_files \in {{}, {Tuesday.ymd}}
    /\ handles = {}
    /\ ctx = None
    /\ ctx_call = NoContextCall
    /\ BuildIdle

\* web/app.py _get_context(date), as plan() calls it: the cached context is
\* returned, or a context is prepared and cached together with its date; when
\* prepare raises, nothing is assigned
GetContext ==
    \E d \in ContextDates, has_index \in BOOLEAN, finalized \in BOOLEAN :
        LET before == [ctx |-> ctx, ctx_date |-> ctx_date,
                       store_files |-> store_files, handles |-> handles]
            p == IF has_index THEN PrepareFromIndex(d, store_files, handles)
                 ELSE PrepareData(d, store_files, handles)
        IN /\ IF UsesCached(ctx, ctx_date, d)
              THEN /\ ctx_call' = [date |-> d, outcome |-> "ok", returned |-> ctx,
                                   prepared |-> FALSE, before |-> before]
                   /\ error' = None
                   /\ UNCHANGED <<ctx, ctx_date, store_files, handles>>
              ELSE IF p.raised # None
              THEN /\ ctx_call' = [date |-> d, outcome |-> "error", returned |-> None,
                                   prepared |-> TRUE, before |-> before]
                   /\ error' = p.raised
                   /\ store_files' = p.store_files
                   /\ handles' = StillOpen(p.opened, p.opened \ handles,
                                           DbPathSet(ctx), finalized)
                   /\ UNCHANGED <<ctx, ctx_date>>
              ELSE /\ ctx_call' = [date |-> d, outcome |-> "ok", returned |-> p.context,
                                   prepared |-> TRUE, before |-> before]
                   /\ error' = None
                   /\ store_files' = p.store_files
                   /\ handles' = StillOpen(p.opened, DbPathSet(ctx),
                                           DbPathSet(p.context), finalized)
                   /\ ctx' = p.context
                   /\ ctx_date' = d
           /\ UNCHANGED <<feed, date, filtered, db, stop_departures, trip_stop_sequence,
                          dep_cache, trip_cache, dep_cache_other, trip_cache_other,
                          request, last, trails, query, plans, served, trail_plans,
                          dedup_input, dedup_results, fs, inode, run>>

NextCtx == GetContext

SpecCtx == InitCtx /\ [][NextCtx]_vars

(***************************************************************************)
(* The itineraries of a schedule, enumerated without any search order: a   *)
(* ride is a pair of rows of one trip, boarding at the first and alighting *)
(* at the later one.                                                       *)
(***************************************************************************)
Rows == filtered.stop_times

RowDep(i) == TimeToSeconds(Rows[i].departure_time)
RowArr(i) == TimeToSeconds(Rows[i].arrival_time)

\* The rows at which one can alight after boarding at row i
Alightings(i) ==
    {j \in 1..Len(Rows) : /\ Rows[j].trip_id = Rows[i].trip_id
                          /\ Rows[j].stop_sequence > Rows[i].stop_sequence}

\* The rows at which one can board another trip after alighting at row j
Transfers(j) ==
    {k \in 1..Len(Rows) : /\ Rows[k].stop_id = Rows[j].stop_id
                          /\ Rows[k].trip_id # Rows[j].trip_id
                          /\ RowDep(k) >= RowArr(j) + 60}

\* Every zero- or one-transfer itinerary from a stop of starts to a stop of
\* targets, as [dep |-> first departure, arr |-> last arrival]
Itineraries(starts, targets) ==
    LET boards == {i \in 1..Len(Rows) : Rows[i].stop_id \in starts}
        direct == UNION {{[dep |-> RowDep(i), arr |-> RowArr(j)] :
                            j \in {a \in Alightings(i) : Rows[a].stop_id \in targets}} :
                         i \in boards}
        onetransfer ==
            UNION {UNION {UNION {{[dep |-> RowDep(i), arr |-> RowArr(l)] :
                                    l \in {a \in Alightings(k) : Rows[a].stop_id \in targets}} :
                                 k \in Transfers(j)} :
                          j \in Alightings(i)} :
                   i \in boards}
    IN direct \cup onetransfer

Absent(c) == c.legs = None
ArrivalOf(c) == DatetimeSecs(c.legs[Len(c.legs)].arrival)
DepartureOf(c) == DatetimeSecs(c.legs[1].departure)

\* C1: find_outbound returns an itinerary whose arrival at a dest stop is the
\* minimum over all zero- or one-transfer itineraries boarding at an origin stop
\* at or after earliest_dep_secs, and returns absent exactly when there is none.
C1_OutboundEarliestArrival ==
    last.op = "find_outbound" =>
        LET its == {it \in Itineraries(ToSet(last.starts), last.targets) :
                        it.dep >= last.secs}
        IN IF its = {} THEN Absent(last)
           ELSE /\ ~Absent(last)
                /\ \A it \in its : ArrivalOf(last) <= it.arr
                /\ \E it \in its : ArrivalOf(last) = it.arr

\* C2: find_return returns an itinerary whose departure from the trail stop is
\* the maximum over all zero- or one-transfer itineraries from a trail stop that
\* arrive at an origin stop at or before deadline_secs, and returns absent only
\* when there is none.
C2_ReturnLatestDeparture ==
    last.op = "find_return" =>
        LET its == {it \in Itineraries(ToSet(last.starts), last.targets) :
                        it.arr <= last.secs}
        IN IF Absent(last) THEN its = {}
           ELSE /\ \A it \in its : DepartureOf(last) >= it.dep
                /\ \E it \in its : DepartureOf(last) = it.dep

\* C3: every itinerary returned by find_return has its last leg arriving at an
\* origin stop at or before deadline_secs, and when no trip from the trail stops
\* can reach an origin stop by the deadline the result is absent.
C3_ReturnRespectsDeadline ==
    last.op = "find_return" =>
        /\ ~Absent(last) =>
              /\ last.legs[Len(last.legs)].to_stop_id \in last.targets
              /\ ArrivalOf(last) <= last.secs
        /\ {it \in Itineraries(ToSet(last.starts), last.targets) :
                it.arr <= last.secs} = {} => Absent(last)

\* find_return has returned an itinerary that arrives exactly at the deadline
C3_Witness ==
    /\ last.op = "find_return"
    /\ ~Absent(last)
    /\ ArrivalOf(last) = last.secs

\* C4: for a fixed store, origin_stops and dest_stops and any e1 <= e2, the
\* arrival of find_outbound(..., e2) is not earlier than the arrival of
\* find_outbound(..., e1), an absent result counting as later than any arrival.
C4_OutboundMonotonic ==
    last.op = "find_outbound" =>
        \A e2 \in EarliestDepartures :
            last.secs <= e2 =>
                LET later == find_outbound(MemRouter, last.starts, last.targets, e2)
                IN \/ Absent(later)
                   \/ ~Absent(last) /\ ArrivalOf(last) <= ArrivalOf(later)

\* find_outbound has returned an itinerary, and a later start time gives a
\* strictly later arrival
C4_Witness ==
    /\ last.op = "find_outbound"
    /\ ~Absent(last)
    /\ \E e2 \in EarliestDepartures :
          /\ last.secs < e2
          /\ LET later == find_outbound(MemRouter, last.starts, last.targets, e2)
             IN ~Absent(later) /\ ArrivalOf(last) < ArrivalOf(later)

\* C5: for a fixed store, trail_stops and origin_stops and any d2 <= d1, the
\* trail departure of find_return(..., d2) is not later than that of
\* find_return(..., d1), an absent result counting as earlier than any departure,
\* also when more than MAX_RETURN_DEPARTURES departures exist at a trail stop.
C5_ReturnMonotonic ==
    last.op = "find_return" =>
        \A d2 \in Deadlines :
            d2 <= last.secs =>
                LET earlier == find_return(MemRouter, last.starts, last.targets, d2)
                IN \/ Absent(earlier)
                   \/ ~Absent(last) /\ DepartureOf(earlier) <= DepartureOf(last)

\* C6: every result of find_outbound and find_return has exactly 1 or 2 legs; the
\* first leg starts at a given start stop and the last leg ends at a given target
\* stop; in a 2-leg result the first leg ends where the second starts, the legs
\* use different trips, and the second departs at least MIN_TRANSFER_SECS after
\* the first arrives.
C6_LegStructure ==
    (last.op \in {"find_outbound", "find_return"} /\ ~Absent(last)) =>
        LET legs == last.legs
        IN /\ Len(legs) \in {1, 2}
           /\ legs[1].from_stop_id \in ToSet(last.starts)
           /\ legs[Len(legs)].to_stop_id \in last.targets
           /\ Len(legs) = 2 =>
                 /\ legs[1].to_stop_id = legs[2].from_stop_id
                 /\ legs[1].trip_id # legs[2].trip_id
                 /\ DatetimeSecs(legs[2].departure)
                       >= DatetimeSecs(legs[1].arrival) + MIN_TRANSFER_SECS

\* A call has returned a 2-leg itinerary
C6_Witness ==
    /\ last.op \in {"find_outbound", "find_return"}
    /\ ~Absent(last)
    /\ Len(last.legs) = 2

\* What a router returns for the arguments of call c
Replay(R, c) ==
    IF c.op = "find_outbound" THEN find_outbound(R, c.starts, c.targets, c.secs)
    ELSE find_return(R, c.starts, c.targets, c.secs)

\* C7: for a fixed store, a find_outbound or find_return call returns the same
\* legs no matter which queries ran before it (the proxy caches fill and are
\* cleared between and during calls): the legs a router with empty caches returns.
C7_Stateless ==
    last.op \in {"find_outbound", "find_return"} =>
        last.legs = Replay(IF last.backend = "db" THEN FreshDBRouter ELSE MemRouter,
                           last).legs

\* The on-disk router has returned an itinerary from a call during which its
\* departures cache was cleared (a start stop it looked up is no longer cached)
C7_Witness ==
    /\ last.backend = "db"
    /\ ~Absent(last)
    /\ \E s \in ToSet(last.starts) : s \notin DOMAIN dep_cache

CalendarCovers(row, d) ==
    row.start_date <= d.ymd /\ d.ymd <= row.end_date /\ row.days[d.day_name] = 1

HasException(f, d, service_id, exception_type) ==
    \E i \in 1..Len(f.calendar_dates) :
        /\ f.calendar_dates[i].service_id = service_id
        /\ f.calendar_dates[i].date = d.ymd
        /\ f.calendar_dates[i].exception_type = exception_type

ServiceActive(f, d, service_id) ==
    /\ \/ \E i \in 1..Len(f.calendar) :
             f.calendar[i].service_id = service_id /\ CalendarCovers(f.calendar[i], d)
       \/ HasException(f, d, service_id, 1)
    /\ ~HasException(f, d, service_id, 2)

RetainedTrips(store) == {store.trips[i].trip_id : i \in 1..Len(store.trips)}

RetainsRow(store, r) ==
    \E j \in 1..Len(store.stop_times) :
        /\ store.stop_times[j].trip_id = r.trip_id
        /\ store.stop_times[j].stop_sequence = r.stop_sequence

StoreRetainsActive(store) ==
    /\ \A i \in 1..Len(feed.trips) :
          (feed.trips[i].trip_id \in RetainedTrips(store))
              <=> ServiceActive(feed, date, feed.trips[i].service_id)
    /\ \A i \in 1..Len(feed.stop_times) :
          RetainsRow(store, feed.stop_times[i])
              <=> (feed.stop_times[i].trip_id \in RetainedTrips(store))

\* C9: a date-specific store, in memory or on disk, retains a trip iff its
\* service is active on the date (a calendar row covers the date with the
\* weekday column 1, or a type-1 exception row is on the date, and no type-2
\* exception row is on the date), and retains a stop_times row iff its trip is
\* retained.
C9_StoreRetainsActiveTrips ==
    /\ filtered # None => StoreRetainsActive(filtered)
    /\ db # None => StoreRetainsActive(db)

LastArrival(p) == DatetimeSecs(p.outbound_legs[Len(p.outbound_legs)].arrival)
FirstReturnDeparture(p) == DatetimeSecs(p.return_legs[1].departure)
HikeStart(p) == DatetimeSecs(p.hike_segment.hike_start)
HikeEnd(p) == DatetimeSecs(p.hike_segment.hike_end)

\* C10: in every plan returned by plan_hikes_for_origin the hike starts
\* strictly after the last outbound leg arrives, the hike starts strictly
\* before it ends, and the first return leg departs strictly after the hike
\* ends.
C10_PlanOrdering ==
    \A i \in 1..Len(plans) :
        /\ HikeStart(plans[i]) > LastArrival(plans[i])
        /\ HikeStart(plans[i]) < HikeEnd(plans[i])
        /\ FirstReturnDeparture(plans[i]) > HikeEnd(plans[i])

\* C11: every plan returned by plan_hikes_for_origin has 0 < hiking_ratio <= 1,
\* the ratio being hiking time over the time from the first outbound departure
\* to the last return arrival.
C11_HikingRatioInUnitInterval ==
    \A i \in 1..Len(plans) :
        /\ plans[i].hiking_ratio = <<plans[i].hike_segment.hiking_secs, plans[i].total_secs>>
        /\ plans[i].hiking_ratio[1] > 0
        /\ plans[i].hiking_ratio[1] <= plans[i].hiking_ratio[2]

PlanLegs(p) ==
    {p.outbound_legs[k] : k \in 1..Len(p.outbound_legs)}
        \cup {p.return_legs[k] : k \in 1..Len(p.return_legs)}

\* The legs the program has returned: those of the plans and of the last
\* router call
ReturnedLegs ==
    UNION {PlanLegs(plans[i]) : i \in 1..Len(plans)}
        \cup {last.legs[k] : k \in 1..Len(last.legs)}

StoreStops == {filtered.stop_times[i].stop_id : i \in 1..Len(filtered.stop_times)}

\* C12: every bus leg of every returned plan, and every leg the router
\* returns, departs strictly before it arrives, and its from-stop and to-stop
\* are stops of the store.
C12_LegsDepartBeforeArrival ==
    \A leg \in ReturnedLegs :
        /\ DatetimeSecs(leg.departure) < DatetimeSecs(leg.arrival)
        /\ leg.from_stop_id \in StoreStops
        /\ leg.to_stop_id \in StoreStops

IsThroughHike(p) == p.hike_segment.is_through_hike \/ p.exit_access_point # None

SegmentLength(p) ==
    Abs(p.access_point.trail_m_from_start - p.exit_access_point.trail_m_from_start)

\* C13: every through-hike plan returned by plan_hikes_for_origin has
\* exit_access_point set and is_through_hike true, enters and leaves at
\* different stops, and covers a segment of at least
\* THROUGH_HIKE_MIN_DISTANCE_KM and at most THROUGH_HIKE_MAX_DISTANCE_KM.
C13_ThroughHikeShape ==
    \A i \in 1..Len(plans) :
        IsThroughHike(plans[i]) =>
            /\ plans[i].exit_access_point # None
            /\ plans[i].hike_segment.is_through_hike
            /\ plans[i].access_point.stop_id # plans[i].exit_access_point.stop_id
            /\ SegmentLength(plans[i]) >= THROUGH_HIKE_MIN_DISTANCE_M
            /\ SegmentLength(plans[i]) <= THROUGH_HIKE_MAX_DISTANCE_M
            /\ plans[i].hike_segment.estimated_distance_m = SegmentLength(plans[i])

\* A through-hike over a segment of exactly the maximum length has been planned,
\* on a trail that also has access points further apart
C13_Witness ==
    /\ \E i \in 1..Len(plans) :
          /\ IsThroughHike(plans[i])
          /\ SegmentLength(plans[i]) = THROUGH_HIKE_MAX_DISTANCE_M
    /\ query = NoQuery

\* The candidates that are plans
Feasible(candidates) == {k \in 1..Len(candidates) : candidates[k] # None}

\* p is the first of the candidates with the highest hiking_ratio
IsFirstBest(p, candidates) ==
    \E k \in Feasible(candidates) :
        /\ candidates[k] = p
        /\ \A j \in Feasible(candidates) :
              /\ ~RatioGreater(candidates[j].hiking_ratio, p.hiking_ratio)
              /\ j < k => RatioGreater(p.hiking_ratio, candidates[j].hiking_ratio)

\* Two candidates are plans with the same hiking_ratio
HasTie(candidates) ==
    \E j, k \in Feasible(candidates) :
        /\ j < k
        /\ ~RatioGreater(candidates[j].hiking_ratio, candidates[k].hiking_ratio)
        /\ ~RatioGreater(candidates[k].hiking_ratio, candidates[j].hiking_ratio)

\* What C14 says of the plans res returned for one trail
SingleTrailResult(trail, res, out_and_back, through) ==
    /\ Len(res) <= 2
    /\ Cardinality({i \in 1..Len(res) : ~IsThroughHike(res[i])}) <= 1
    /\ Cardinality({i \in 1..Len(res) : IsThroughHike(res[i])}) <= 1
    /\ \A i \in 1..Len(res) :
          IF IsThroughHike(res[i])
          THEN /\ ~trail.is_loop
               /\ Len(trail.access_points) >= 2
               /\ IsFirstBest(res[i], through)
          ELSE IsFirstBest(res[i], out_and_back)

\* C14: for every trail _plan_single_trail returns at most one non-through plan
\* and at most one through-hike plan, a through-hike plan only for a trail that
\* is not a loop and has at least 2 access points, and each returned plan has
\* the highest hiking_ratio among the feasible candidates of its kind, the first
\* computed winning ties.
C14_SingleTrailBest ==
    \A k \in 1..Len(trail_plans) :
        SingleTrailResult(trails[k], trail_plans[k],
            OutAndBackCandidates(trails[k], served.origin_stop_ids,
                                 EarliestDepSecs(served), DeadlineSecs(date),
                                 served.min_hiking_secs),
            ThroughCandidates(trails[k], Len(trails[k].access_points),
                              served.origin_stop_ids, EarliestDepSecs(served),
                              DeadlineSecs(date), served.min_hiking_secs))

TiedTrailResult(res, out_and_back, through) ==
    Len(res) = 2 /\ HasTie(out_and_back) /\ HasTie(through)

\* A trail has got both an out-and-back and a through-hike plan, each chosen
\* among candidates of equal hiking_ratio
C14_Witness ==
    \E k \in 1..Len(trail_plans) :
        TiedTrailResult(trail_plans[k],
            OutAndBackCandidates(trails[k], served.origin_stop_ids,
                                 EarliestDepSecs(served), DeadlineSecs(date),
                                 served.min_hiking_secs),
            ThroughCandidates(trails[k], Len(trails[k].access_points),
                              served.origin_stop_ids, EarliestDepSecs(served),
                              DeadlineSecs(date), served.min_hiking_secs))

\* The place of all[k] in the stable descending order of all: after the plans of
\* greater hiking_ratio and the earlier plans of equal hiking_ratio
RankOf(all, k) ==
    1 + Cardinality({j \in 1..Len(all) :
                        \/ RatioGreater(all[j].hiking_ratio, all[k].hiking_ratio)
                        \/ j < k /\ ~RatioGreater(all[k].hiking_ratio, all[j].hiking_ratio)})

\* res is the first max_results of the candidates all in that order
RankedPrefix(res, all, max_results) ==
    /\ Len(res) <= max_results
    /\ Len(res) = Min(max_results, Len(all))
    /\ \A i \in 1..(Len(res) - 1) :
          ~RatioGreater(res[i + 1].hiking_ratio, res[i].hiking_ratio)
    /\ \A k \in 1..Len(all) :
          IF RankOf(all, k) <= Len(res)
          THEN res[RankOf(all, k)] = all[k]
          ELSE \A i \in 1..Len(res) :
                  ~RatioGreater(all[k].hiking_ratio, res[i].hiking_ratio)

\* C15: plan_hikes_for_origin returns the candidate plans in non-increasing
\* hiking_ratio order, plans of equal ratio in the order they were computed,
\* cut to the first max_results: never more than max_results plans, and no
\* omitted plan has a ratio above that of a returned plan.
C15_RankedAndTruncated ==
    served # NoQuery => RankedPrefix(plans, Concat(trail_plans), served.max_results)

\* C16: every plan plan_hikes_for_origin returns, out-and-back, loop or
\* through-hike, has hike_segment.hiking_hours >= query.min_hiking_hours.
C16_MinHikingHours ==
    \A i \in 1..Len(plans) :
        plans[i].hike_segment.hiking_secs >= served.min_hiking_secs

\* A through-hike that takes exactly min_hiking_hours has been returned
C16_Witness ==
    \E i \in 1..Len(plans) :
        /\ IsThroughHike(plans[i])
        /\ plans[i].hike_segment.hiking_secs = served.min_hiking_secs

\* kept is in ascending order of trail_km_from_start
SortedByKm(kept) ==
    \A i \in 1..(Len(kept) - 1) :
        kept[i].trail_m_from_start <= kept[i + 1].trail_m_from_start

\* No two points of kept are closer along the trail than min_trail_distance_m
FarApart(kept, min_trail_distance_m) ==
    \A i, j \in 1..Len(kept) :
        i # j => Abs(kept[i].trail_m_from_start - kept[j].trail_m_from_start)
                    >= min_trail_distance_m

\* C19: what _deduplicate_access_points returns is sorted ascending by
\* trail_km_from_start, and no two retained points are closer along the trail
\* than DEDUP_TRAIL_DISTANCE_M.
C19_DedupSortedAndFarApart ==
    \A k \in 1..Len(dedup_results) :
        /\ SortedByKm(dedup_results[k])
        /\ FarApart(dedup_results[k], DEDUP_TRAIL_DISTANCE_M)

\* Three points that came out of order, two of them kept, exactly
\* DEDUP_TRAIL_DISTANCE_M apart, the nearer stop of a close pair among them
C19_Witness ==
    /\ Len(dedup_input) = 3
    /\ dedup_input[1].trail_m_from_start > dedup_input[3].trail_m_from_start
    /\ Len(dedup_results) >= 1
    /\ Len(dedup_results[1]) = 2
    /\ dedup_results[1][2].trail_m_from_start - dedup_results[1][1].trail_m_from_start
          = DEDUP_TRAIL_DISTANCE_M
    /\ \E i \in 1..3 : dedup_input[i].walk_distance_m > dedup_results[1][1].walk_distance_m

\* C20: deduplication is idempotent: _deduplicate_access_points applied to its
\* own result returns that result.
C20_DedupIdempotent ==
    Len(dedup_results) = 2 => dedup_results[2] = dedup_results[1]

\* The second call has returned, on a list of two points that the first call
\* had made of three
C20_Witness ==
    /\ Len(dedup_results) = 2
    /\ Len(dedup_results[1]) = 2
    /\ Len(dedup_input) = 3

\* The trail of the context a plan is for
PlanTrail(p) == CHOOSE t \in ToSet(trails) : t.name = p.trail

\* C17: for every query and every context, a context prepared once for the date
\* and reused for later queries with other filters included, every plan that
\* plan_hikes_for_origin returns is for a trail that satisfies the query's
\* filters (colors, min/max distance, loop_only, linear_only, max elevation
\* gain, difficulty).
C17_PlansSatisfyFilters ==
    \A i \in 1..Len(plans) : KeepsTrail(PlanTrail(plans[i]), served)

\* C18: every plan returned for a query uses access points whose walk_distance_m
\* is at most query.max_walk_to_trail_m, at the entry and, for a through-hike,
\* at the exit, whether the access points came from a fresh spatial join or
\* from the pre-processed trail index.
C18_WalkWithinQueryLimit ==
    \A i \in 1..Len(plans) :
        /\ plans[i].access_point.walk_distance_m <= served.max_walk_to_trail_m
        /\ IsThroughHike(plans[i]) =>
              plans[i].exit_access_point.walk_distance_m <= served.max_walk_to_trail_m

\* Naismith's rule, in seconds: distance / 4.0 km/h + gain / 600 m/h
NaismithSecs(distance_m, gain_m) == (distance_m * 3600) \div 4000 + (gain_m * 3600) \div 600

\* What C23 says of a plan over distance_m with a climb of gain_m
FitsWindow(p, distance_m, gain_m) ==
    /\ NaismithSecs(distance_m, gain_m) <= HikeEnd(p) - HikeStart(p)
    /\ p.hike_segment.hiking_secs = NaismithSecs(distance_m, gain_m)
    /\ p.hike_segment.estimated_distance_m = distance_m

\* The trail's elevation gain in proportion to the segment
SegmentGain(t, segment_m) == (t.elevation_gain_m * segment_m) \div t.distance_m

LoopOrThroughFits(p, t) ==
    IF IsThroughHike(p)
    THEN FitsWindow(p, SegmentLength(p), SegmentGain(t, SegmentLength(p)))
    ELSE t.is_loop => FitsWindow(p, t.distance_m, t.elevation_gain_m)

\* C23: a loop plan or a through-hike plan is produced only if the Naismith time
\* (over the full loop, or over the segment with proportional gain) is at most
\* the hiking window hike_end - hike_start; its hiking_hours is that Naismith
\* time and its estimated_distance_km the loop length or the segment length.
C23_LoopAndThroughFitWindow ==
    \A i \in 1..Len(plans) : LoopOrThroughFits(plans[i], PlanTrail(plans[i]))

\* A through-hike over a segment that climbs has been returned
C23_Witness ==
    \E i \in 1..Len(plans) :
        /\ IsThroughHike(plans[i])
        /\ SegmentGain(PlanTrail(plans[i]), SegmentLength(plans[i])) > 0
        /\ plans[i].hike_segment.hiking_secs > NaismithSecs(SegmentLength(plans[i]), 0)

\* The access point ap has in kept a point within min_trail_distance_m along the
\* trail whose walk is not longer than its own
Covered(ap, kept, min_trail_distance_m) ==
    \E j \in 1..Len(kept) :
        /\ Abs(kept[j].trail_m_from_start - ap.trail_m_from_start) <= min_trail_distance_m
        /\ kept[j].walk_distance_m <= ap.walk_distance_m

\* C28: deduplication only drops redundant access points: every access point
\* that _deduplicate_access_points removes lies within the threshold distance
\* along the trail of some retained access point whose walk_distance_m is not
\* larger than its own.
C28_DroppedPointsCovered ==
    dedup_results # <<>> =>
        \A i \in 1..Len(dedup_input) :
            dedup_input[i] \notin ToSet(dedup_results[1]) =>
                Covered(dedup_input[i], dedup_results[1], DEDUP_TRAIL_DISTANCE_M)

\* C27: the two active-service computations agree: for every calendar and
\* calendar_dates content and every date, get_active_service_ids (in memory)
\* and _get_active_service_ids_from_csv (streaming) return the same set of
\* service ids, whatever the order of the calendar_dates rows, also when one
\* service has both a type 1 and a type 2 row on the date.
C27_ActiveServicesAgree ==
    (filtered # None /\ db # None) =>
        get_active_service_ids(feed, date) = get_active_service_ids_from_csv(feed, date)

\* C25: after any sequence of get calls each on-disk proxy cache holds at most
\* _PROXY_CACHE_MAX entries, and every get returns the rows stored in the
\* database for its key (absent for an unknown key), served from the cache or
\* not: what a cache holds for a key is what the query returns for it.
C25_ProxyCachesBoundedAndExact ==
    /\ Cardinality(DOMAIN dep_cache) + dep_cache_other <= PROXY_CACHE_MAX
    /\ Cardinality(DOMAIN trip_cache) + trip_cache_other <= PROXY_CACHE_MAX
    /\ \A k \in DOMAIN dep_cache : dep_cache[k] = QueryDepartures(db.stop_times, k)
    /\ \A k \in DOMAIN trip_cache : trip_cache[k] = QueryTripStops(db.stop_times, k)

(***************************************************************************)
(* The itineraries of a schedule with their place in the scan of the       *)
(* router: a direct ride is <<i, j>> (board at row i, alight at row j), a  *)
(* one-transfer ride is <<i, j, k, l>> (board at i, change at the stop of  *)
(* row j to row k, alight at l).                                           *)
(***************************************************************************)
\* The position of stop in the list a search was given
StopIndex(starts, stop) ==
    CHOOSE n \in 1..Len(starts) :
        starts[n] = stop /\ \A m \in 1..(n - 1) : starts[m] # stop

\* The position of row i in the departure list of its stop
DepIndex(i) ==
    LET deps == stop_departures[Rows[i].stop_id]
    IN CHOOSE n \in 1..Len(deps) :
           deps[n].trip_id = Rows[i].trip_id /\ deps[n].seq = Rows[i].stop_sequence

BoardingRows(starts) == {i \in 1..Len(Rows) : Rows[i].stop_id \in ToSet(starts)}

DirectRides(starts, targets) ==
    {r \in BoardingRows(starts) \X (1..Len(Rows)) :
        r[2] \in Alightings(r[1]) /\ Rows[r[2]].stop_id \in targets}

\* The first ride of a one-transfer itinerary ends before the trip reaches a
\* target stop
BeforeTargets(i, j, targets) ==
    \A a \in Alightings(i) :
        Rows[a].stop_sequence <= Rows[j].stop_sequence => Rows[a].stop_id \notin targets

TransferRides(starts, targets) ==
    UNION {UNION {UNION {{<<i, j, k, l>> :
                            l \in {a \in Alightings(k) : Rows[a].stop_id \in targets}} :
                         k \in Transfers(j)} :
                  j \in {a \in Alightings(i) : BeforeTargets(i, a, targets)}} :
           i \in BoardingRows(starts)}

\* The ride a returned best_legs stands for
RideOfLeg(leg) ==
    CHOOSE r \in (1..Len(Rows)) \X (1..Len(Rows)) :
        /\ Rows[r[1]].trip_id = leg.trip_id
        /\ Rows[r[1]].stop_id = leg.f_stop
        /\ RowDep(r[1]) = leg.f_dep
        /\ r[2] \in Alightings(r[1])
        /\ Rows[r[2]].stop_id = leg.t_stop
        /\ RowArr(r[2]) = leg.t_arr

RideOf(best_legs) ==
    IF Len(best_legs) = 1 THEN RideOfLeg(best_legs[1])
    ELSE RideOfLeg(best_legs[1]) \o RideOfLeg(best_legs[2])

\* What a search optimises: the last arrival (find_outbound) or the first
\* departure (find_return)
RideValue(op, r) == IF op = "find_outbound" THEN RowArr(r[Len(r)]) ELSE RowDep(r[1])

\* The ride meets the time limit of the call
RideAllowed(op, r, secs) ==
    IF op = "find_outbound" THEN RowDep(r[1]) >= secs ELSE RowArr(r[Len(r)]) <= secs

\* The scan gets as far as the ride: find_return looks at no more than
\* _MAX_RETURN_DEPARTURES departures of a trail stop that leave by the deadline,
\* a first trip is followed for no more than _MAX_INTERMEDIATE_STOPS stops, and
\* no more than _MAX_CONNECTING_DEPARTURES departures of other trips are tried
\* at a transfer stop
WithinCaps(op, r, secs) ==
    /\ op = "find_return" =>
          LET deps == stop_departures[Rows[r[1]].stop_id]
          IN Cardinality({n \in DepIndex(r[1])..Len(deps) : deps[n].dep_secs <= secs})
                <= MAX_RETURN_DEPARTURES
    /\ Len(r) = 4 =>
          LET conn_deps == stop_departures[Rows[r[3]].stop_id]
          IN /\ Cardinality({a \in Alightings(r[1]) :
                                Rows[a].stop_sequence <= Rows[r[2]].stop_sequence})
                   <= MAX_INTERMEDIATE_STOPS
             /\ Cardinality({n \in 1..DepIndex(r[3]) :
                                /\ conn_deps[n].dep_secs >= TransferReady(RowArr(r[2]))
                                /\ conn_deps[n].trip_id # Rows[r[1]].trip_id})
                   <= MAX_CONNECTING_DEPARTURES

\* Where the scan comes to a ride: start stops in the given order, their
\* departures upwards (find_outbound) or downwards (find_return), the stops
\* of the trip in sequence, the connecting departures upwards, the stops of
\* the connecting trip in sequence
ScanKey(op, starts, r) ==
    << StopIndex(starts, Rows[r[1]].stop_id),
       IF op = "find_outbound" THEN DepIndex(r[1]) ELSE 0 - DepIndex(r[1]),
       Rows[r[2]].stop_sequence >>
    \o (IF Len(r) = 2 THEN <<>>
        ELSE <<DepIndex(r[3]), Rows[r[4]].stop_sequence>>)

RECURSIVE LexLeq(_, _)
LexLeq(a, b) ==
    IF a = <<>> THEN TRUE
    ELSE IF Head(a) # Head(b) THEN Head(a) < Head(b)
    ELSE LexLeq(Tail(a), Tail(b))

\* The rides the scan of the call of last gets to that tie with the returned one
TiedDirect ==
    {r \in DirectRides(last.starts, last.targets) :
        /\ RideAllowed(last.op, r, last.secs)
        /\ WithinCaps(last.op, r, last.secs)
        /\ RideValue(last.op, r) = RideValue(last.op, RideOf(last.best_legs))}

TiedTransfer ==
    {r \in TransferRides(last.starts, last.targets) :
        /\ RideAllowed(last.op, r, last.secs)
        /\ WithinCaps(last.op, r, last.secs)
        /\ RideValue(last.op, r) = RideValue(last.op, RideOf(last.best_legs))}

C22_BothFlagsRejected ==
    served # NoQuery => ~(served.loop_only /\ served.linear_only)

\* C29: after any sequence of _get_context calls the cached pair is consistent:
\* a cached context was prepared for the cached date; a successful call for d
\* returns a context prepared for d, the cached one exactly when the cached date
\* was d; a failing call leaves the cached context and date in place.
C29_CachedPairConsistent ==
    /\ (ctx = None) = (ctx_date = None)
    /\ ctx # None => ctx.date = ctx_date
    /\ ctx_call.outcome = "ok" =>
          /\ ctx_call.returned # None
          /\ ctx_call.returned.date = ctx_call.date
          /\ ctx_call.returned = ctx
          /\ ctx_call.prepared =
                ~(ctx_call.before.ctx # None /\ ctx_call.before.ctx_date = ctx_call.date)
          /\ ~ctx_call.prepared => ctx_call.returned = ctx_call.before.ctx
    /\ ctx_call.outcome = "error" =>
          /\ ctx = ctx_call.before.ctx
          /\ ctx_date = ctx_call.before.ctx_date

\* A call for a Saturday has failed while the context of another date was cached
C29_Witness ==
    /\ ctx_call.outcome = "error"
    /\ ctx_call.before.ctx # None
    /\ ctx # None
    /\ ctx_date # ctx_call.date

\* C21: when prepare fails, no state has been mutated: the store files, the open
\* store handles and the cached context are exactly as before the call.
C21_FailedPrepareMutatesNothing ==
    ctx_call.outcome = "error" =>
        /\ store_files = ctx_call.before.store_files
        /\ handles = ctx_call.before.handles
        /\ ctx = ctx_call.before.ctx
        /\ ctx_date = ctx_call.before.ctx_date

\* The file holds everything build_transit_db writes: the tables, the rows of the
\* trips and stop_times active on the date, and both indexes
Complete(c) ==
    /\ c.tables
    /\ c.trips = build_transit_db(feed, date).trips
    /\ c.stop_times = build_transit_db(feed, date).stop_times
    /\ c.indexes = STORE_INDEXES

FinalComplete == fs.final # NoFile => Complete(inode[fs.final])

\* A file at the final path stays the same file with the same content
FinalKept ==
    fs.final # NoFile => fs'.final = fs.final /\ inode'[fs.final] = inode[fs.final]

\* C24: in every execution of build_transit_db, also one that fails part-way, the
\* file at the final store path either does not exist or contains all
\* date-filtered rows and both indexes, and an existing store file is returned
\* as it is, never rewritten.
C24_FinalStoreAbsentOrComplete == [](FinalComplete) /\ [][FinalKept]_vars

\* A call has failed after it wrote the trips to the temp file; no store exists
C24_Witness ==
    /\ 1 \in DOMAIN run
    /\ run[1].pc = "failed"
    /\ fs.final = NoFile
    /\ fs.tmp # NoFile
    /\ inode[fs.tmp].trips # <<>>
    /\ ~Complete(inode[fs.tmp])

\* C30: for every interleaving of two build_transit_db runs for the same date and
\* feed, a file at the final store path contains the complete date-filtered
\* stop_times rows and both indexes, and both runs return the store path
\* without raising.
C30_ConcurrentBuildsSafe ==
    /\ FinalComplete
    /\ \A p \in DOMAIN run : run[p].result \in {None, <<"db_path">>}

=============================================================================
